---- MODULE Spec2Model ----
(***************************************************************************)
(* Verification model of go-substrate-rpc-client: the MetadataV11          *)
(* resolvers (FindCallIndex, FindEventNamesForEventID,                     *)
(* FindStorageEntryMetadata), the Blake2b-128 concat hasher and the        *)
(* storage hasher selection, the event record decoder, and the Encode and  *)
(* Decode methods of the metadata types and of UCompact.                   *)
(*                                                                         *)
(* A Go string / types.Text is a sequence of one-character strings (its   *)
(* bytes, where it is encoded), a byte slice is a sequence of integers     *)
(* 0..255.                                                                 *)
(***************************************************************************)
EXTENDS Integers, Sequences, FiniteSets, TLC

VARIABLES
    m,      \* the MetadataV11 value the resolvers are called on
    ret,    \* what the last resolver call was given and what it returned
    d,      \* the hash.Hash under test (NoHash before it is constructed)
    made,   \* how d was constructed: the constructor, its argument, its error
    log,    \* the slices written to d since it was constructed or last Reset
    resets, \* whether Reset was called on d
    sum,    \* the result of Sum(nil) when that was the last call on d
    raw,    \* the EventRecordsRaw bytes being decoded
    target, \* the type of the destination struct: its fields, in order
    dest,   \* the destination struct: one slice of decoded records per field
    dec,    \* DecodeEventRecords' locals: pc, count n, index i, cursor, error
    val,    \* the value Encode is called on
    wire,   \* what Encode wrote, and its error
    into    \* the value Decode is called on, and what the last Decode returned

metaVars == <<m, ret>>
hashVars == <<d, made, log, resets, sum>>
eventVars == <<raw, target, dest, dec>>
codecVars == <<val, wire, into>>
vars == <<m, ret, d, made, log, resets, sum, raw, target, dest, dec, val, wire, into>>

\* ------------------------------------------------- idle parts of the state

\* No hash.Hash (a nil interface value).
NoHash == [type |-> "nil"]

NoSum == [valid |-> FALSE, bytes |-> <<>>]

NotMade == [by |-> "none", arg |-> <<>>, err |-> ""]

\* No hasher constructed: the state of the hash variables outside SpecHash.
HashIdle ==
    /\ d = NoHash
    /\ made = NotMade
    /\ log = <<>>
    /\ resets = FALSE
    /\ sum = NoSum

\* DecodeEventRecords not called: the state of its variables outside SpecEvents.
NotDecoding ==
    [pc |-> "idle", n |-> 0, i |-> 0, cur |-> 1, policy |-> "", before |-> <<>>,
     err |-> [kind |-> "", event |-> 0, id |-> <<>>, field |-> <<>>, has |-> 0, got |-> ""]]

EventsIdle ==
    /\ raw = <<>>
    /\ target = <<>>
    /\ dest = <<>>
    /\ dec = NotDecoding

\* No value, nothing written, nothing decoded: the codec outside SpecCodec.
NoValue == [kind |-> "none"]

NoWire == [written |-> FALSE, bytes |-> <<>>, err |-> ""]

NotDecoded == [n |-> 0]

CodecIdle ==
    /\ val = NoValue
    /\ wire = NoWire
    /\ into = NotDecoded

\* ---------------------------------------------------------------- bounds

\* Longest list of ordinary modules in a metadata value.
MaxModules == 3

\* uint8 arithmetic: the width of CallIndex fields and of the counter mi.
U8 == 256

\* ------------------------------------------------------------ the data

Txt(c) == <<c>>

\* StorageFunctionTypeV11 values (flags only).
PlainType == [IsType |-> TRUE, IsMap |-> FALSE, IsDoubleMap |-> FALSE]
MapType == [IsType |-> FALSE, IsMap |-> TRUE, IsDoubleMap |-> FALSE]

\* StorageFunctionMetadataV11
Item(n, t) == [Name |-> Txt(n), Type |-> t]

\* StorageMetadataV11
StorageMetadataV11(p, items) == [Prefix |-> Txt(p), Items |-> items]

\* FunctionMetadataV4 / EventMetadataV4: a name and the types of the arguments.
FnArgs(n, args) == [Name |-> Txt(n), Args |-> args]

Fn(n) == FnArgs(n, <<>>)

\* ModuleMetadataV11
ModuleMetadataV11(n, hs, st, hc, calls, he, events) ==
    [Name |-> Txt(n), HasStorage |-> hs, Storage |-> st, HasCalls |-> hc,
     Calls |-> calls, HasEvents |-> he, Events |-> events]

NoStorage == StorageMetadataV11("", <<>>)

Other(n) == IF n = "A" THEN "B" ELSE "A"

\* The module values metadata is drawn from, for a module name n: every
\* combination the resolvers distinguish (a section absent, present and empty,
\* present with one or two entries, a repeated entry name, a storage prefix
\* that differs from the module name, fields left over under a false flag).
ModuleShapes(n) ==
    { ModuleMetadataV11(n, FALSE, NoStorage, FALSE, <<>>, FALSE, <<>>),
      ModuleMetadataV11(n, TRUE, StorageMetadataV11(n, <<Item("x", PlainType)>>),
                        TRUE, <<Fn("f")>>, TRUE, <<Fn("e")>>),
      ModuleMetadataV11(n, TRUE,
                        StorageMetadataV11(Other(n),
                            <<Item("y", PlainType), Item("x", MapType), Item("x", PlainType)>>),
                        TRUE, <<Fn("g"), Fn("f"), Fn("g")>>, FALSE, <<>>),
      ModuleMetadataV11(n, FALSE, StorageMetadataV11(n, <<Item("y", MapType)>>),
                        FALSE, <<Fn("f")>>, TRUE, <<Fn("d"), Fn("e")>>),
      ModuleMetadataV11(n, TRUE, StorageMetadataV11(n, <<>>),
                        TRUE, <<>>, TRUE, <<>>) }

ModuleSet == ModuleShapes("A") \cup ModuleShapes("B")

RECURSIVE SeqsUpTo(_, _)
SeqsUpTo(S, n) ==
    IF n = 0 THEN {<<>>}
    ELSE LET shorter == SeqsUpTo(S, n - 1)
         IN  shorter \cup {Append(s, x) : s \in {t \in shorter : Len(t) = n - 1}, x \in S}

Repeat(x, n) == [i \in 1..n |-> x]

\* Metadata with as many call-bearing modules, or calls in one module, as a
\* uint8 counts and one more.
WideMetadata ==
    { Repeat(ModuleMetadataV11("A", FALSE, NoStorage, TRUE, <<Fn("f")>>, FALSE, <<>>), n)
        \o <<ModuleMetadataV11("B", FALSE, NoStorage, TRUE, <<Fn("f")>>, FALSE, <<>>)>>
      : n \in {U8 - 1, U8} }
    \cup
    { <<ModuleMetadataV11("B", FALSE, NoStorage, TRUE,
                          Repeat(Fn("f"), n) \o <<Fn("g")>>, FALSE, <<>>)>>
      : n \in {U8 - 1, U8} }

\* [A(no calls), B(calls:[f]), C(calls:[g,h])]
ExampleModules ==
    << ModuleMetadataV11("A", FALSE, NoStorage, FALSE, <<>>, FALSE, <<>>),
       ModuleMetadataV11("B", FALSE, NoStorage, TRUE, <<Fn("f")>>, FALSE, <<>>),
       ModuleMetadataV11("C", FALSE, NoStorage, TRUE, <<Fn("g"), Fn("h")>>, FALSE, <<>>) >>

MetadataSet ==
    { [Modules |-> ms] :
        ms \in SeqsUpTo(ModuleSet, MaxModules) \cup WideMetadata \cup {ExampleModules} }

\* ------------------------------------------------------------- strings

\* strings.Split(call, "."): the pieces between the dots, always at least one.
RECURSIVE SplitFrom(_, _, _)
SplitFrom(str, i, cur) ==
    IF i > Len(str) THEN <<cur>>
    ELSE IF str[i] = "." THEN <<cur>> \o SplitFrom(str, i + 1, <<>>)
    ELSE SplitFrom(str, i + 1, Append(cur, str[i]))

Split(str) == SplitFrom(str, 1, <<>>)

\* --------------------------------------------------------- return values

Ok(v) == [kind |-> "ok", err |-> "", val |-> v]
\* An error return; v is what the function returns beside the error.
Err(e, v) == [kind |-> "err", err |-> e, val |-> v]
\* A Go run-time panic (index out of range).
Panic == [kind |-> "panic", err |-> "index out of range", val |-> <<>>]

\* CallIndex{}: the zero value returned beside an error.
ZeroCallIndex == <<0, 0>>
\* "", "": the two empty names returned beside an error.
NoNames == <<<<>>, <<>>>>

\* ------------------------------------------------------------- loops

\* A Go "for ... range" loop whose body may return is an operator
\* XLoop(..., st, lo, hi) that runs the iterations lo..hi in order on the loop
\* state st, XBody being one iteration; once st.out holds a return value no
\* further iteration runs. The range is halved so that long lists need little
\* nesting.
Running(st) == st.out.kind = "running"

StillRunning == [kind |-> "running", err |-> "", val |-> <<>>]

Return(st, r) == [st EXCEPT !.out = r]

\* ------------------------------------------------------- FindCallIndex

\* One iteration of for ci, f := range mod.Calls (lines 48-52); j is ci + 1.
CallBody(s, mi, calls, st, j) ==
    IF Len(s) < 2 THEN Return(st, Panic)
    ELSE IF calls[j].Name = s[2] THEN Return(st, Ok(<<mi, (j - 1) % U8>>))
    ELSE st

\* for ci, f := range mod.Calls (lines 48-52).
RECURSIVE CallLoop(_, _, _, _, _, _)
CallLoop(s, mi, calls, st, lo, hi) ==
    IF lo > hi \/ ~Running(st) THEN st
    ELSE IF lo = hi THEN CallBody(s, mi, calls, st, lo)
    ELSE LET mid == (lo + hi) \div 2
             left == CallLoop(s, mi, calls, st, lo, mid)
         IN  IF Running(left) THEN CallLoop(s, mi, calls, left, mid + 1, hi) ELSE left

\* What follows the loop over mod.Calls once the module matched (lines 48-53).
FindCall(mod, s, mi) ==
    LET st == CallLoop(s, mi, mod.Calls, [out |-> StillRunning], 1, Len(mod.Calls))
    IN  IF ~Running(st) THEN st.out
        ELSE IF Len(s) < 2 THEN Panic
        ELSE Err("method not found within module", ZeroCallIndex)

\* ModuleBody with the counter advanced for modules without calls as well.
ModuleBodyCountsAll(md, s, st, i) ==
    LET mod == md.Modules[i]
    IN  IF ~mod.HasCalls THEN [st EXCEPT !.mi = (st.mi + 1) % U8]
        ELSE IF mod.Name # s[1] THEN [st EXCEPT !.mi = (st.mi + 1) % U8]
        ELSE Return(st, FindCall(mod, s, st.mi))

\* ModuleBody with the name compared before the HasCalls flag is looked at.
ModuleBodyNameFirst(md, s, st, i) ==
    LET mod == md.Modules[i]
    IN  IF mod.Name = s[1] THEN Return(st, FindCall(mod, s, st.mi))
        ELSE IF ~mod.HasCalls THEN st
        ELSE [st EXCEPT !.mi = (st.mi + 1) % U8]

\* One iteration of for _, mod := range m.Modules (lines 40-54); the loop
\* state holds mi.
ModuleBody(md, s, st, i) ==
    LET mod == md.Modules[i]
    IN  IF ~mod.HasCalls THEN st
        ELSE IF mod.Name # s[1] THEN [st EXCEPT !.mi = (st.mi + 1) % U8]
        ELSE Return(st, FindCall(mod, s, st.mi))

\* for _, mod := range m.Modules (lines 40-54).
RECURSIVE ModuleLoop(_, _, _, _, _)
ModuleLoop(md, s, st, lo, hi) ==
    IF lo > hi \/ ~Running(st) THEN st
    ELSE IF lo = hi THEN ModuleBody(md, s, st, lo)
    ELSE LET mid == (lo + hi) \div 2
             left == ModuleLoop(md, s, st, lo, mid)
         IN  IF Running(left) THEN ModuleLoop(md, s, left, mid + 1, hi) ELSE left

FindCallIndex(md, call) ==
    LET s == Split(call)
        st == ModuleLoop(md, s, [mi |-> 0, out |-> StillRunning], 1, Len(md.Modules))
    IN  IF ~Running(st) THEN st.out ELSE Err("module not found in metadata", ZeroCallIndex)

\* -------------------------------------------- FindEventNamesForEventID

\* EventBody with the counter advanced for modules without events as well.
EventBodyCountsAll(md, eventID, st, i) ==
    LET mod == md.Modules[i]
    IN  IF st.mi # eventID[1] THEN [st EXCEPT !.mi = (st.mi + 1) % U8]
        ELSE IF ~mod.HasEvents THEN st
        ELSE IF eventID[2] >= Len(mod.Events)
             THEN Return(st, Err("event index out of range", NoNames))
        ELSE Return(st, Ok(<<mod.Name, mod.Events[eventID[2] + 1].Name>>))

\* One iteration of for _, mod := range m.Modules (lines 60-72).
EventBody(md, eventID, st, i) ==
    LET mod == md.Modules[i]
    IN  IF ~mod.HasEvents THEN st
        ELSE IF st.mi # eventID[1] THEN [st EXCEPT !.mi = (st.mi + 1) % U8]
        ELSE IF eventID[2] >= Len(mod.Events)
             THEN Return(st, Err("event index out of range", NoNames))
        ELSE Return(st, Ok(<<mod.Name, mod.Events[eventID[2] + 1].Name>>))

\* for _, mod := range m.Modules (lines 60-72).
RECURSIVE EventLoop(_, _, _, _, _)
EventLoop(md, eventID, st, lo, hi) ==
    IF lo > hi \/ ~Running(st) THEN st
    ELSE IF lo = hi THEN EventBody(md, eventID, st, lo)
    ELSE LET mid == (lo + hi) \div 2
             left == EventLoop(md, eventID, st, lo, mid)
         IN  IF Running(left) THEN EventLoop(md, eventID, left, mid + 1, hi) ELSE left

FindEventNamesForEventID(md, eventID) ==
    LET st == EventLoop(md, eventID, [mi |-> 0, out |-> StillRunning],
                   1, Len(md.Modules))
    IN  IF ~Running(st) THEN st.out ELSE Err("module index out of range", NoNames)

\* -------------------------------------------- FindStorageEntryMetadata

\* One iteration of for _, s := range mod.Storage.Items (lines 84-89).
ItemBody(items, fn, st, j) ==
    IF items[j].Name # fn THEN st ELSE Return(st, Ok(<<items[j]>>))

\* for _, s := range mod.Storage.Items (lines 84-89).
RECURSIVE ItemLoop(_, _, _, _, _)
ItemLoop(items, fn, st, lo, hi) ==
    IF lo > hi \/ ~Running(st) THEN st
    ELSE IF lo = hi THEN ItemBody(items, fn, st, lo)
    ELSE LET mid == (lo + hi) \div 2
             left == ItemLoop(items, fn, st, lo, mid)
         IN  IF Running(left) THEN ItemLoop(items, fn, left, mid + 1, hi) ELSE left

FindItem(items, fn) ==
    LET st == ItemLoop(items, fn, [out |-> StillRunning], 1, Len(items))
    IN  IF ~Running(st) THEN st.out ELSE Err("storage not found within module", <<>>)

\* StorageBody matching the module's Name instead of its storage prefix.
StorageBodyByName(md, module, fn, st, i) ==
    LET mod == md.Modules[i]
    IN  IF ~mod.HasStorage THEN st
        ELSE IF mod.Name # module THEN st
        ELSE Return(st, FindItem(mod.Storage.Items, fn))

\* One iteration of for _, mod := range m.Modules (lines 77-91).
StorageBody(md, module, fn, st, i) ==
    LET mod == md.Modules[i]
    IN  IF ~mod.HasStorage THEN st
        ELSE IF mod.Storage.Prefix # module THEN st
        ELSE Return(st, FindItem(mod.Storage.Items, fn))

\* for _, mod := range m.Modules (lines 77-91).
RECURSIVE StorageLoop(_, _, _, _, _, _)
StorageLoop(md, module, fn, st, lo, hi) ==
    IF lo > hi \/ ~Running(st) THEN st
    ELSE IF lo = hi THEN StorageBody(md, module, fn, st, lo)
    ELSE LET mid == (lo + hi) \div 2
             left == StorageLoop(md, module, fn, st, lo, mid)
         IN  IF Running(left) THEN StorageLoop(md, module, fn, left, mid + 1, hi) ELSE left

FindStorageEntryMetadata(md, module, fn) ==
    LET st == StorageLoop(md, module, fn, [out |-> StillRunning], 1, Len(md.Modules))
    IN  IF ~Running(st) THEN st.out ELSE Err("module not found in metadata", <<>>)

\* ------------------------------------------------- the resolver machine

\* The call strings tried: "M.c" for the names in use and unused ones, a
\* string with two dots, with an empty call name, with no dot, the empty string.
CallStrings ==
    { <<mn, ".", c>> : mn \in {"A", "B", "C"}, c \in {"f", "g", "h"} }
    \cup { <<"A", ".", "f", ".", "g">>, <<"B", ".">>, <<".", "f">>, <<"A">>, <<"C">>, <<>> }

\* Event ids tried: module and event indices up to one past the largest in use.
EventIDs == (0..MaxModules) \X (0..MaxModules)

StorageNames == {Txt("A"), Txt("B"), Txt("C")}
ItemNames == {Txt("x"), Txt("y"), Txt("z")}

NoCall == [op |-> "none", arg |-> <<>>, out |-> Ok(<<>>)]

InitMeta ==
    /\ m \in MetadataSet
    /\ ret = NoCall
    /\ HashIdle
    /\ EventsIdle
    /\ CodecIdle

\* Each behaviour makes one call on the metadata value it drew.
CallFindCallIndex ==
    \E call \in CallStrings :
        /\ ret = NoCall
        /\ ret' = [op |-> "FindCallIndex", arg |-> <<call>>, out |-> FindCallIndex(m, call)]
        /\ UNCHANGED <<m, hashVars, eventVars, codecVars>>

CallFindEventNames ==
    \E eventID \in EventIDs :
        /\ ret = NoCall
        /\ ret' = [op |-> "FindEventNamesForEventID", arg |-> eventID,
                   out |-> FindEventNamesForEventID(m, eventID)]
        /\ UNCHANGED <<m, hashVars, eventVars, codecVars>>

CallFindStorageEntry ==
    \E module \in StorageNames, fn \in ItemNames :
        /\ ret = NoCall
        /\ ret' = [op |-> "FindStorageEntryMetadata", arg |-> <<module, fn>>,
                   out |-> FindStorageEntryMetadata(m, module, fn)]
        /\ UNCHANGED <<m, hashVars, eventVars, codecVars>>

NextMeta == CallFindCallIndex \/ CallFindEventNames \/ CallFindStorageEntry

SpecMeta == InitMeta /\ [][NextMeta]_vars

\* ================================================== the hash constructions

\* Longest key handed to New128Concat, most Write calls between two Resets,
\* longest slice written.
MaxKeyLen == 1
MaxWrites == 2
MaxSliceLen == 2

\* blake2b.Size: New rejects a key longer than this.
Blake2bMaxKey == 64

\* The byte values keys and written slices are made of.
ByteSet == {1, 2}

RECURSIVE Flatten(_)
Flatten(chunks) == IF chunks = <<>> THEN <<>> ELSE Head(chunks) \o Flatten(Tail(chunks))

\* golang.org/x/crypto/blake2b: a digest of size bytes over the bytes absorbed
\* since the last Reset, keyed when key is not empty. The digest is not
\* computed: its i-th byte is the term <<"blake2b", size, key, msg, i>>.
Blake2bDigest(size, key, msg) == [i \in 1..size |-> <<"blake2b", size, key, msg, i>>]

\* blake2b.New(size, key)
Blake2bNew(size, key) ==
    IF Len(key) > Blake2bMaxKey
    THEN [h |-> NoHash, err |-> "blake2b: invalid key size"]
    ELSE [h |-> [type |-> "blake2b", size |-> size, key |-> key, buf |-> <<>>], err |-> ""]

\* The xxhash package's hashers: New128, New256, New64Concat. The digest is a
\* term, as for Blake2b; the concat form is followed by the bytes written.
XxhashDigest(bits, msg) == [i \in 1..(bits \div 8) |-> <<"xxhash", bits, msg, i>>]

XxhashNew(bits, concat) ==
    [type |-> IF concat THEN "xxhashConcat" ELSE "xxhash", bits |-> bits, buf |-> <<>>]

\* New128Concat with the buffer starting empty.
New128ConcatEmptyData(key) ==
    LET r == Blake2bNew(16, key)
    IN  IF r.err # "" THEN [h |-> NoHash, err |-> r.err]
        ELSE [h |-> [type |-> "digestConcat128", hasher |-> r.h, data |-> <<>>], err |-> ""]

\* New128Concat (concat_128.go lines 11-21): data starts as the key.
New128Concat(key) ==
    LET r == Blake2bNew(16, key)
    IN  IF r.err # "" THEN [h |-> NoHash, err |-> r.err]
        ELSE [h |-> [type |-> "digestConcat128", hasher |-> r.h, data |-> key], err |-> ""]

\* hash.Hash.Write
Write(h, p) ==
    CASE h.type = "digestConcat128" ->
            [h EXCEPT !.data = h.data \o p, !.hasher.buf = h.hasher.buf \o p]
      [] OTHER -> [h EXCEPT !.buf = h.buf \o p]

\* hash.Hash.Reset
Reset(h) ==
    CASE h.type = "digestConcat128" -> [h EXCEPT !.data = <<>>, !.hasher.buf = <<>>]
      [] OTHER -> [h EXCEPT !.buf = <<>>]

\* hash.Hash.Sum(b): b followed by the hash.
Sum(h, b) ==
    CASE h.type = "digestConcat128" ->
            (b \o Blake2bDigest(h.hasher.size, h.hasher.key, h.hasher.buf)) \o h.data
      [] h.type = "blake2b" -> b \o Blake2bDigest(h.size, h.key, h.buf)
      [] h.type = "xxhash" -> b \o XxhashDigest(h.bits, h.buf)
      [] h.type = "xxhashConcat" -> (b \o XxhashDigest(h.bits, h.buf)) \o h.buf

\* StorageHasherV11
StorageHasherV11(f) ==
    [IsBlake2_128 |-> f[1], IsBlake2_256 |-> f[2], IsBlake2_128Concat |-> f[3],
     IsTwox128 |-> f[4], IsTwox256 |-> f[5], IsTwox64Concat |-> f[6], IsIdentity |-> f[7]]

\* Most flags set at once in a selector tried.
MaxFlags == 2

StorageHashers ==
    { StorageHasherV11(f) :
        f \in {g \in [1..7 -> BOOLEAN] : Cardinality({i \in 1..7 : g[i]}) <= MaxFlags} }

\* return h, nil
Constructed(h) == [h |-> h, err |-> ""]

\* HashFunc returning a hasher that passes the key through for Identity.
HashFuncIdentityPlain(s) ==
    IF s.IsBlake2_128 THEN Blake2bNew(16, <<>>)
    ELSE IF s.IsBlake2_256 THEN Blake2bNew(32, <<>>)
    ELSE IF s.IsBlake2_128Concat THEN New128Concat(<<>>)
    ELSE IF s.IsTwox128 THEN Constructed(XxhashNew(128, FALSE))
    ELSE IF s.IsTwox256 THEN Constructed(XxhashNew(256, FALSE))
    ELSE IF s.IsTwox64Concat THEN Constructed(XxhashNew(64, TRUE))
    ELSE IF s.IsIdentity THEN Constructed(XxhashNew(0, TRUE))
    ELSE [h |-> NoHash, err |-> "hash function type not yet supported"]

\* StorageHasherV11.HashFunc (lines 425-462)
HashFunc(s) ==
    IF s.IsBlake2_128 THEN Blake2bNew(16, <<>>)
    ELSE IF s.IsBlake2_256 THEN Blake2bNew(32, <<>>)
    ELSE IF s.IsBlake2_128Concat THEN New128Concat(<<>>)
    ELSE IF s.IsTwox128 THEN Constructed(XxhashNew(128, FALSE))
    ELSE IF s.IsTwox256 THEN Constructed(XxhashNew(256, FALSE))
    ELSE IF s.IsTwox64Concat THEN Constructed(XxhashNew(64, TRUE))
    ELSE IF s.IsIdentity THEN New128Concat(<<>>)
    ELSE [h |-> NoHash, err |-> "hash function type not yet supported"]

\* ------------------------------------------------------ the hasher machine

\* Keys up to MaxKeyLen bytes, and one that is a byte too long for Blake2b.
Keys == SeqsUpTo(ByteSet, MaxKeyLen) \cup {Repeat(1, Blake2bMaxKey + 1)}

Slices == SeqsUpTo(ByteSet, MaxSliceLen)

InitHash ==
    /\ HashIdle
    /\ m = [Modules |-> <<>>]
    /\ ret = NoCall
    /\ EventsIdle
    /\ CodecIdle

CallNew128Concat ==
    \E key \in Keys :
        /\ made = NotMade
        /\ LET r == New128Concat(key)
           IN  /\ d' = r.h
               /\ made' = [by |-> "New128Concat", arg |-> key, err |-> r.err]
        /\ UNCHANGED <<log, resets, sum, metaVars, eventVars, codecVars>>

CallHashFunc ==
    \E s \in StorageHashers :
        /\ made = NotMade
        /\ LET r == HashFunc(s)
           IN  /\ d' = r.h
               /\ made' = [by |-> "HashFunc", arg |-> s, err |-> r.err]
        /\ UNCHANGED <<log, resets, sum, metaVars, eventVars, codecVars>>

CallWrite ==
    \E p \in Slices :
        /\ d # NoHash
        /\ Len(log) < MaxWrites
        /\ d' = Write(d, p)
        /\ log' = Append(log, p)
        /\ sum' = NoSum
        /\ UNCHANGED <<made, resets, metaVars, eventVars, codecVars>>

CallSum ==
    /\ d # NoHash
    /\ sum' = [valid |-> TRUE, bytes |-> Sum(d, <<>>)]
    /\ UNCHANGED <<d, made, log, resets, metaVars, eventVars, codecVars>>

CallReset ==
    /\ d # NoHash
    /\ d' = Reset(d)
    /\ log' = <<>>
    /\ resets' = TRUE
    /\ sum' = NoSum
    /\ UNCHANGED <<made, metaVars, eventVars, codecVars>>

NextHash == CallNew128Concat \/ CallHashFunc \/ CallWrite \/ CallSum \/ CallReset

SpecHash == InitHash /\ [][NextHash]_vars

\* ============================================= the hashers of a storage entry

\* StorageFunctionTypeV11 with the hashers of its payloads: AsMap.Hasher,
\* AsDoubleMap.Hasher and AsDoubleMap.Key2Hasher.
StorageFunctionTypeV11(isType, isMap, isDoubleMap, hasher, hasher1, key2Hasher) ==
    [IsType |-> isType, IsMap |-> isMap, IsDoubleMap |-> isDoubleMap,
     AsMap |-> [Hasher |-> hasher],
     AsDoubleMap |-> [Hasher |-> hasher1, Key2Hasher |-> key2Hasher]]

\* Hasher taking the second hasher of a DoubleMap.
HasherOfKey2(s) ==
    IF s.Type.IsMap THEN HashFunc(s.Type.AsMap.Hasher)
    ELSE IF s.Type.IsDoubleMap THEN HashFunc(s.Type.AsDoubleMap.Key2Hasher)
    ELSE Constructed(XxhashNew(128, FALSE))

\* StorageFunctionMetadataV11.Hasher (lines 232-240)
Hasher(s) ==
    IF s.Type.IsMap THEN HashFunc(s.Type.AsMap.Hasher)
    ELSE IF s.Type.IsDoubleMap THEN HashFunc(s.Type.AsDoubleMap.Hasher)
    ELSE Constructed(XxhashNew(128, FALSE))

\* Hasher2 answering for a Map as well.
Hasher2OfMaps(s) ==
    IF ~s.Type.IsDoubleMap /\ ~s.Type.IsMap
    THEN [h |-> NoHash, err |-> "only DoubleMaps have a Hasher2"]
    ELSE HashFunc(s.Type.AsDoubleMap.Key2Hasher)

\* StorageFunctionMetadataV11.Hasher2 (lines 242-247)
Hasher2(s) ==
    IF ~s.Type.IsDoubleMap
    THEN [h |-> NoHash, err |-> "only DoubleMaps have a Hasher2"]
    ELSE HashFunc(s.Type.AsDoubleMap.Key2Hasher)

\* The selectors with at most one flag set.
TaggedHashers ==
    {h \in [{"IsBlake2_128", "IsBlake2_256", "IsBlake2_128Concat", "IsTwox128",
             "IsTwox256", "IsTwox64Concat", "IsIdentity"} -> BOOLEAN] :
        Cardinality({f \in DOMAIN h : h[f]}) <= 1}

\* The storage entries tried: every combination of the three type flags.
Entries ==
    { Item("x", StorageFunctionTypeV11(t, mp, dm, h, h1, h2)) :
        t \in BOOLEAN, mp \in BOOLEAN, dm \in BOOLEAN,
        h \in TaggedHashers, h1 \in TaggedHashers, h2 \in TaggedHashers }

InitEntry ==
    /\ HashIdle
    /\ m = [Modules |-> <<>>]
    /\ ret = NoCall
    /\ EventsIdle
    /\ CodecIdle

CallHasher ==
    \E s \in Entries :
        /\ made = NotMade
        /\ LET r == Hasher(s)
           IN  /\ d' = r.h
               /\ made' = [by |-> "Hasher", arg |-> s, err |-> r.err]
        /\ UNCHANGED <<log, resets, sum, metaVars, eventVars, codecVars>>

CallHasher2 ==
    \E s \in Entries :
        /\ made = NotMade
        /\ LET r == Hasher2(s)
           IN  /\ d' = r.h
               /\ made' = [by |-> "Hasher2", arg |-> s, err |-> r.err]
        /\ UNCHANGED <<log, resets, sum, metaVars, eventVars, codecVars>>

NextEntry == CallHasher \/ CallHasher2

SpecEntry == InitEntry /\ [][NextEntry]_vars

\* =====================================================================
\* DecodeEventRecords (types package). Its implementation and the scale codec
\* it reads with are not among the sources: the decoder below follows
\* spec.md 4.1 (codec), 4.4 (algorithm) and the error texts of
\* src/types/event_record_test.go.

\* ---------------------------------------------------------------- bounds

\* Most records in an encoded stream.
MaxRecords == 3
\* Leading bytes of a stream that are tried with another value.
MaxDamaged == 10

\* Length of a Hash in bytes.
HashLen == 32
\* Largest value the model's integers hold (compact integers saturate there).
MaxInt == 2147483647

\* ----------------------------------------------------------------- types

\* Go type names, as the error texts print them.
TPhase == "types.Phase"
THashes == "[]types.Hash"
TUint8 == "uint8"
TUint32 == "uint32"
TBool == "bool"

\* Phase values.
ApplyExtrinsic(n) ==
    [IsApplyExtrinsic |-> TRUE, AsApplyExtrinsic |-> n,
     IsFinalization |-> FALSE, IsInitialization |-> FALSE]
Finalization ==
    [IsApplyExtrinsic |-> FALSE, AsApplyExtrinsic |-> 0,
     IsFinalization |-> TRUE, IsInitialization |-> FALSE]
Initialization ==
    [IsApplyExtrinsic |-> FALSE, AsApplyExtrinsic |-> 0,
     IsFinalization |-> FALSE, IsInitialization |-> TRUE]
ZeroPhase ==
    [IsApplyExtrinsic |-> FALSE, AsApplyExtrinsic |-> 0,
     IsFinalization |-> FALSE, IsInitialization |-> FALSE]

\* A decoded field: the value under the name of its type.
PhaseVal(p) == [Phase |-> p]
HashesVal(hs) == [Hashes |-> hs]
Uint8Val(n) == [uint8 |-> n]
Uint32Val(n) == [uint32 |-> n]
BoolVal(x) == [bool |-> x]

\* The zero value of a Go type.
ZeroValue(t) ==
    CASE t = TPhase -> PhaseVal(ZeroPhase)
      [] t = THashes -> HashesVal(<<>>)
      [] t = TUint8 -> Uint8Val(0)
      [] t = TUint32 -> Uint32Val(0)
      [] t = TBool -> BoolVal(FALSE)

\* ----------------------------------------------------------------- codec

\* A decode step: the value and the cursor behind it, or an error.
Got(v, cur) == [ok |-> TRUE, v |-> v, cur |-> cur]
Fail(e) == [ok |-> FALSE, err |-> e]

BufferUnderrun == "BufferUnderrun"
UnknownDiscriminant == "UnknownDiscriminant"

\* k more bytes can be read at cur.
Has(b, cur, k) == cur + k - 1 <= Len(b)

DecodeUint8(b, cur) ==
    IF Has(b, cur, 1) THEN Got(b[cur], cur + 1) ELSE Fail(BufferUnderrun)

\* Integers are little-endian fixed-width.
DecodeUint32(b, cur) ==
    IF Has(b, cur, 4)
    THEN Got(b[cur] + 256 * b[cur + 1] + 65536 * b[cur + 2] + 16777216 * b[cur + 3],
             cur + 4)
    ELSE Fail(BufferUnderrun)

\* Booleans are one byte, 0x00/0x01; any other byte is a decode failure.
DecodeBool(b, cur) ==
    IF ~Has(b, cur, 1) THEN Fail(BufferUnderrun)
    ELSE IF b[cur] = 0 THEN Got(FALSE, cur + 1)
    ELSE IF b[cur] = 1 THEN Got(TRUE, cur + 1)
    ELSE Fail(UnknownDiscriminant)

\* The big-endian value of bytes cur..cur+k-1, saturating at MaxInt.
RECURSIVE BigEndian(_, _, _, _)
BigEndian(b, cur, k, acc) ==
    IF k = 0 THEN acc
    ELSE IF acc > (MaxInt - b[cur]) \div 256 THEN MaxInt
    ELSE BigEndian(b, cur + 1, k - 1, acc * 256 + b[cur])

\* Compact integer: the two low bits of the first byte select the form
\* (one byte, two bytes, four bytes, or a length-prefixed form).
DecodeUintCompact(b, cur) ==
    IF ~Has(b, cur, 1) THEN Fail(BufferUnderrun)
    ELSE LET mode == b[cur] % 4
             top == b[cur] \div 4
         IN  CASE mode = 0 -> Got(top, cur + 1)
               [] mode = 1 ->
                    IF Has(b, cur, 2) THEN Got(top + 64 * b[cur + 1], cur + 2)
                    ELSE Fail(BufferUnderrun)
               [] mode = 2 ->
                    IF Has(b, cur, 4)
                    THEN Got(top + 64 * b[cur + 1] + 16384 * b[cur + 2]
                                 + 4194304 * b[cur + 3], cur + 4)
                    ELSE Fail(BufferUnderrun)
               [] mode = 3 ->
                    IF Has(b, cur + 1, top + 4)
                    THEN Got(BigEndian(b, cur + 1, top + 4, 0), cur + 1 + top + 4)
                    ELSE Fail(BufferUnderrun)

\* Phase: a tagged variant ApplyExtrinsic(u32) | Finalization | Initialization.
DecodePhase(b, cur) ==
    IF ~Has(b, cur, 1) THEN Fail(BufferUnderrun)
    ELSE CASE b[cur] = 0 ->
                LET n == DecodeUint32(b, cur + 1)
                IN  IF n.ok THEN Got(ApplyExtrinsic(n.v), n.cur) ELSE n
           [] b[cur] = 1 -> Got(Finalization, cur + 1)
           [] b[cur] = 2 -> Got(Initialization, cur + 1)
           [] OTHER -> Fail(UnknownDiscriminant)

\* EventID: the pair (module index, event index), one byte each.
DecodeEventID(b, cur) ==
    IF Has(b, cur, 2) THEN Got(<<b[cur], b[cur + 1]>>, cur + 2) ELSE Fail(BufferUnderrun)

\* k hashes of HashLen bytes each.
RECURSIVE DecodeHashList(_, _, _, _)
DecodeHashList(b, cur, k, acc) ==
    IF k = 0 THEN Got(acc, cur)
    ELSE IF ~Has(b, cur, HashLen) THEN Fail(BufferUnderrun)
    ELSE DecodeHashList(b, cur + HashLen, k - 1,
                        Append(acc, SubSeq(b, cur, cur + HashLen - 1)))

\* []Hash: a compact length and that many hashes.
DecodeHashes(b, cur) ==
    LET n == DecodeUintCompact(b, cur)
    IN  IF n.ok THEN DecodeHashList(b, n.cur, n.v, <<>>) ELSE n

\* decoder.Decode into a field of type t.
DecodeValue(t, b, cur) ==
    CASE t = TUint8 ->
            LET r == DecodeUint8(b, cur) IN IF r.ok THEN Got(Uint8Val(r.v), r.cur) ELSE r
      [] t = TUint32 ->
            LET r == DecodeUint32(b, cur) IN IF r.ok THEN Got(Uint32Val(r.v), r.cur) ELSE r
      [] t = TBool ->
            LET r == DecodeBool(b, cur) IN IF r.ok THEN Got(BoolVal(r.v), r.cur) ELSE r
      [] t = TPhase ->
            LET r == DecodePhase(b, cur) IN IF r.ok THEN Got(PhaseVal(r.v), r.cur) ELSE r
      [] t = THashes ->
            LET r == DecodeHashes(b, cur) IN IF r.ok THEN Got(HashesVal(r.v), r.cur) ELSE r

\* The fields j.. of the shape types, decoded in declared order after acc.
RECURSIVE DecodeFieldsFrom(_, _, _, _, _)
DecodeFieldsFrom(types, j, b, cur, acc) ==
    IF j > Len(types) THEN Got(acc, cur)
    ELSE LET r == DecodeValue(types[j], b, cur)
         IN  IF r.ok THEN DecodeFieldsFrom(types, j + 1, b, r.cur, Append(acc, r.v))
             ELSE r

\* ------------------------------------------------------------ destination

\* A field of the destination struct: its name and the types of the fields of
\* the struct its slice holds.
Slot(name, elem) == [name |-> name, elem |-> elem]

\* fmt.Sprintf("%v_%v", moduleName, eventName)
SlotName(moduleName, eventName) == moduleName \o <<"_">> \o eventName

\* val.FieldByName: the position of the field called name (0: there is none).
FieldByName(tgt, name) ==
    LET at == {k \in 1..Len(tgt) : tgt[k].name = name}
    IN  IF at = {} THEN 0 ELSE CHOOSE k \in at : \A l \in at : k <= l

\* The destination struct with every slice empty.
ZeroDest(tgt) == [k \in 1..Len(tgt) |-> <<>>]

\* The destination struct with one zero element already in its first slice.
UsedDest(tgt) ==
    [k \in 1..Len(tgt) |->
        IF k = 1 THEN <<[j \in 1..Len(tgt[k].elem) |-> ZeroValue(tgt[k].elem[j])]>>
        ELSE <<>>]

\* ----------------------------------------------------------------- errors

NoError == [kind |-> "", event |-> 0, id |-> <<>>, field |-> <<>>, has |-> 0, got |-> ""]

\* An error of DecodeEventRecords: what failed, at which record (event), with
\* which EventID and destination field, and the field count or type found.
EventError(kind, i, id, field, has, got) ==
    [kind |-> kind, event |-> i, id |-> id, field |-> field, has |-> has, got |-> got]

\* "... to have at least 2 fields (for Phase and Topics), but has %v fields"
TooFewFields == "at least 2 fields (for Phase and Topics)"
\* "expected the first field of ... to be of type types.Phase, but got %v"
FirstNotPhase == "first field to be of type types.Phase"
\* "expected the last field of ... to be of type []types.Hash for Topics, but got %v"
LastNotHashes == "last field to be of type []types.Hash for Topics"

\* ---------------------------------------------------------------- decoder

\* CheckShape with the types looked at before the number of fields.
CheckShapeTypesFirst(i, id, name, shape) ==
    IF Len(shape) >= 1 /\ shape[1] # TPhase
    THEN EventError(FirstNotPhase, i, id, name, Len(shape), shape[1])
    ELSE IF Len(shape) >= 1 /\ shape[Len(shape)] # THashes
    THEN EventError(LastNotHashes, i, id, name, Len(shape), shape[Len(shape)])
    ELSE IF Len(shape) < 2
    THEN EventError(TooFewFields, i, id, name, Len(shape), "")
    ELSE NoError

\* The shape of the slot's element: at least two fields, Phase first, []Hash
\* last. NoError when it is as it must be.
CheckShape(i, id, name, shape) ==
    IF Len(shape) < 2
    THEN EventError(TooFewFields, i, id, name, Len(shape), "")
    ELSE IF shape[1] # TPhase
    THEN EventError(FirstNotPhase, i, id, name, Len(shape), shape[1])
    ELSE IF shape[Len(shape)] # THashes
    THEN EventError(LastNotHashes, i, id, name, Len(shape), shape[Len(shape)])
    ELSE NoError

\* The modules of md that have events, in order: EventID[0] counts these.
ModulesWithEvents(md) == SelectSeq(md.Modules, LAMBDA mod : mod.HasEvents)

\* The argument types the metadata declares for the event eventID.
EventArgs(md, eventID) ==
    ModulesWithEvents(md)[eventID[1] + 1].Events[eventID[2] + 1].Args

\* What decoding one record comes to.
Failed(e) == [kind |-> "fail", err |-> e]
Skipped(cur) == [kind |-> "skip", cur |-> cur]
Decoded(k, elem, cur) == [kind |-> "append", slot |-> k, elem |-> elem, cur |-> cur]

\* A record the destination has no field for. The two readings of spec.md
\* 4.4: it is an error ("reject": the destination is the list of supported
\* events), or its fields are read as the metadata declares them and dropped
\* ("skip").
NoSlotPolicies == {"skip", "reject"}

NoField(md, policy, b, cur, i, id, name) ==
    IF policy = "reject"
    THEN Failed(EventError("unable to find field", i, id, name, 0, ""))
    ELSE LET r == DecodeFieldsFrom(EventArgs(md, id) \o <<THashes>>, 1, b, cur, <<>>)
         IN  IF r.ok THEN Skipped(r.cur)
             ELSE Failed(EventError(r.err, i, id, name, 0, ""))

\* The fields after the Phase, read into a new element of slot k.
DecodeElement(tgt, k, phase, b, cur, i, id, name) ==
    LET r == DecodeFieldsFrom(tgt[k].elem, 2, b, cur, <<PhaseVal(phase)>>)
    IN  IF r.ok THEN Decoded(k, r.v, r.cur)
        ELSE Failed(EventError(r.err, i, id, name, Len(tgt[k].elem), ""))

\* One iteration of the loop over the records: record i, which starts at cur.
DecodeRecord(md, tgt, policy, b, cur, i) ==
    LET phase == DecodePhase(b, cur)
    IN  IF ~phase.ok THEN Failed(EventError(phase.err, i, <<>>, <<>>, 0, TPhase))
        ELSE
        LET id == DecodeEventID(b, phase.cur)
        IN  IF ~id.ok THEN Failed(EventError(id.err, i, <<>>, <<>>, 0, "types.EventID"))
            ELSE
            LET names == FindEventNamesForEventID(md, id.v)
            IN  IF names.kind # "ok"
                THEN Failed(EventError(names.err, i, id.v, <<>>, 0, ""))
                ELSE
                LET name == SlotName(names.val[1], names.val[2])
                    k == FieldByName(tgt, name)
                IN  IF k = 0 THEN NoField(md, policy, b, id.cur, i, id.v, name)
                    ELSE
                    LET bad == CheckShape(i, id.v, name, tgt[k].elem)
                    IN  IF bad # NoError THEN Failed(bad)
                        ELSE DecodeElement(tgt, k, phase.v, b, id.cur, i, id.v, name)

\* PrependRecord: the element put in front of the slice.
PrependRecord(dst, k, elem) == [dst EXCEPT ![k] = <<elem>> \o @]

\* field.Set(reflect.Append(field, holder.Elem()))
AppendRecord(dst, k, elem) == [dst EXCEPT ![k] = Append(@, elem)]

\* ----------------------------------------------------------------- inputs

\* The encoder's side (the chain's): how a stream of records is laid out.
EncodeCompact(n) ==
    IF n < 64 THEN <<4 * n>> ELSE <<(4 * n + 1) % 256, (4 * n + 1) \div 256>>

EncodeUint32(n) ==
    <<n % 256, (n \div 256) % 256, (n \div 65536) % 256, (n \div 16777216) % 256>>

EncodePhase(p) ==
    IF p.IsApplyExtrinsic THEN <<0>> \o EncodeUint32(p.AsApplyExtrinsic)
    ELSE IF p.IsFinalization THEN <<1>>
    ELSE <<2>>

EncodeValue(v) ==
    IF "uint8" \in DOMAIN v THEN <<v.uint8>>
    ELSE IF "uint32" \in DOMAIN v THEN EncodeUint32(v.uint32)
    ELSE IF "bool" \in DOMAIN v THEN <<IF v.bool THEN 1 ELSE 0>>
    ELSE IF "Phase" \in DOMAIN v THEN EncodePhase(v.Phase)
    ELSE EncodeCompact(Len(v.Hashes)) \o Flatten(v.Hashes)

\* One record: Phase, EventID, the event's arguments, Topics.
Record(phase, id, args, topics) ==
    [Phase |-> phase, EventID |-> id, Args |-> args, Topics |-> topics]

EncodeRecord(r) ==
    EncodePhase(r.Phase) \o <<r.EventID[1], r.EventID[2]>>
        \o Flatten([j \in 1..Len(r.Args) |-> EncodeValue(r.Args[j])])
        \o EncodeValue(HashesVal(r.Topics))

\* EventRecordsRaw: the compact count and that many records.
EncodeEventRecords(rs) ==
    EncodeCompact(Len(rs)) \o Flatten([j \in 1..Len(rs) |-> EncodeRecord(rs[j])])

\* The metadata of the event streams: A and B have events, N has none.
EventMetadata ==
    [Modules |->
        << ModuleMetadataV11("A", FALSE, NoStorage, FALSE, <<>>, TRUE,
               <<FnArgs("e", <<TUint8>>), FnArgs("d", <<>>)>>),
           ModuleMetadataV11("N", FALSE, NoStorage, TRUE, <<Fn("f")>>, FALSE, <<>>),
           ModuleMetadataV11("B", FALSE, NoStorage, FALSE, <<>>, TRUE,
               <<FnArgs("e", <<TBool>>)>>) >>]

A_e == SlotName(Txt("A"), Txt("e"))
A_d == SlotName(Txt("A"), Txt("d"))
B_e == SlotName(Txt("B"), Txt("e"))

ExampleHash == [j \in 1..HashLen |-> 17]

\* The records the streams are made of.
SourceRecords ==
    { Record(ApplyExtrinsic(1), <<0, 0>>, <<Uint8Val(0)>>, <<>>),
      Record(Initialization, <<0, 1>>, <<>>, <<>>),
      Record(Finalization, <<1, 0>>, <<BoolVal(TRUE)>>, <<ExampleHash>>) }

\* Byte values put in the place of a byte of a stream.
DamageBytes == {0, 1, 2, 3}

\* b, and b cut short by a byte, followed by a byte, declaring one record more
\* or less, or with one of its leading bytes changed.
Damaged(b) ==
    {b, SubSeq(b, 1, Len(b) - 1), b \o <<0>>, [b EXCEPT ![1] = @ + 4]}
        \cup {[b EXCEPT ![1] = @ - 4] : x \in {y \in {b[1]} : y >= 4}}
        \cup {[b EXCEPT ![k] = v] :
                k \in {l \in 1..Len(b) : l <= MaxDamaged}, v \in DamageBytes}

RawSet == UNION {Damaged(EncodeEventRecords(rs)) : rs \in SeqsUpTo(SourceRecords, MaxRecords)}

\* The destination types tried: all events declared, some, slots of a wrong
\* shape (as in the tests), a slot that leaves out the event's argument.
GoodShape(args) == <<TPhase>> \o args \o <<THashes>>

Targets ==
    { << Slot(A_e, GoodShape(<<TUint8>>)), Slot(A_d, GoodShape(<<>>)),
         Slot(B_e, GoodShape(<<TBool>>)) >>,
      << Slot(A_e, GoodShape(<<TUint8>>)) >>,
      << Slot(A_d, GoodShape(<<>>)), Slot(A_e, <<TUint8>>) >>,
      << Slot(A_e, <<>>) >>,
      << Slot(A_e, <<TPhase>>) >>,
      << Slot(A_e, <<TUint8, TUint32, THashes>>) >>,
      << Slot(A_e, <<TPhase, TUint32, TPhase>>) >>,
      << Slot(A_e, <<TUint8, TUint32, TPhase>>) >>,
      << Slot(A_e, GoodShape(<<>>)) >> }

\* ---------------------------------------------------------------- machine

\* LoopCondition letting the loop run for i = n as well.
LoopConditionToEnd(i, n) == i <= n

\* i < n of for i := 0; i < n; i++
LoopCondition(i, n) == i < n

InitEvents ==
    /\ m = EventMetadata
    /\ ret = NoCall
    /\ HashIdle
    /\ raw \in RawSet
    /\ target \in Targets
    /\ dest \in {ZeroDest(target), UsedDest(target)}
    /\ \E policy \in NoSlotPolicies :
          dec = [NotDecoding EXCEPT !.policy = policy, !.before = dest]
    /\ CodecIdle

\* DecodeEventRecords up to its loop: the number of records is read.
DecodeEventRecords ==
    /\ dec.pc = "idle"
    /\ LET n == DecodeUintCompact(raw, 1)
       IN  dec' = IF ~n.ok
                  THEN [dec EXCEPT !.pc = "failed",
                                   !.err = EventError(n.err, 0, <<>>, <<>>, 0, "")]
                  ELSE [dec EXCEPT !.pc = IF LoopCondition(0, n.v) THEN "decoding" ELSE "done",
                                   !.n = n.v, !.cur = n.cur]
    /\ UNCHANGED <<metaVars, hashVars, codecVars, raw, target, dest>>

\* One iteration of for i := 0; i < n; i++, and the return after the last.
DecodeNextRecord ==
    /\ dec.pc = "decoding"
    /\ LET r == DecodeRecord(m, target, dec.policy, raw, dec.cur, dec.i)
           more == IF LoopCondition(dec.i + 1, dec.n) THEN "decoding" ELSE "done"
       IN  CASE r.kind = "fail" ->
                  /\ dec' = [dec EXCEPT !.pc = "failed", !.err = r.err]
                  /\ dest' = dest
             [] r.kind = "skip" ->
                  /\ dec' = [dec EXCEPT !.pc = more, !.i = @ + 1, !.cur = r.cur]
                  /\ dest' = dest
             [] r.kind = "append" ->
                  /\ dec' = [dec EXCEPT !.pc = more, !.i = @ + 1, !.cur = r.cur]
                  /\ dest' = AppendRecord(dest, r.slot, r.elem)
    /\ UNCHANGED <<metaVars, hashVars, codecVars, raw, target>>

NextEvents == DecodeEventRecords \/ DecodeNextRecord

SpecEvents == InitEvents /\ [][NextEvents]_vars

\* ======================================================= the metadata codec

\* F of the value of e, which is evaluated once.
With(e, F(_)) == CHOOSE out \in { F(r) : r \in {e} } : TRUE

\* What an Encode call wrote to the encoder, and the error it returned.
Wrote(bytes) == [bytes |-> bytes, err |-> ""]
EncodeError(e) == [bytes |-> <<>>, err |-> e]

\* a, and then b if a returned no error: what both wrote, the first error.
Then(a, b) ==
    With(a, LAMBDA p :
        IF p.err # "" THEN p
        ELSE With(b, LAMBDA q : [bytes |-> p.bytes \o q.bytes, err |-> q.err]))

\* encoder.PushByte
PushByte(t) == Wrote(<<t>>)

\* What a Decode call left in the value it was called on, the decoder's
\* position afterwards, and the error it returned.
DecodedTo(v, cur) == [v |-> v, cur |-> cur, err |-> ""]
DecodeError(v, cur, e) == [v |-> v, cur |-> cur, err |-> e]

\* Lifts a decoder of a plain value (Got/Fail) to one that overwrites v.
Overwrite(v, cur, r) ==
    With(r, LAMBDA q :
        IF q.ok THEN DecodedTo(q.v, q.cur) ELSE DecodeError(v, cur, q.err))

\* ------------------------------------------------------------ Text, Type

\* A Text or Type is its bytes, behind their compact length.
EncodeText(t) == Wrote(EncodeCompact(Len(t)) \o t)

DecodeText(b, cur) ==
    With(DecodeUintCompact(b, cur), LAMBDA n :
        IF ~n.ok THEN n
        ELSE IF n.v > Len(b) \/ ~Has(b, n.cur, n.v) THEN Fail(BufferUnderrun)
        ELSE Got(SubSeq(b, n.cur, n.cur + n.v - 1), n.cur + n.v))

EncodeBool(f) == Wrote(<<IF f THEN 1 ELSE 0>>)

\* ------------------------------------------------------ StorageHasherV11

\* The flags of a StorageHasherV11, in the order of their discriminants.
HasherFlags ==
    <<"IsBlake2_128", "IsBlake2_256", "IsBlake2_128Concat", "IsTwox128",
      "IsTwox256", "IsTwox64Concat", "IsIdentity">>

ZeroHasher == StorageHasherV11([i \in 1..7 |-> FALSE])

UnexpectedHasher == "received unexpected storage hasher type"
NoHasherSet == "expected storage hasher, but none was set"

DecodeStorageHasherV11AnyByte(s, b, cur) ==
    With(DecodeUint8(b, cur), LAMBDA t :
        IF ~t.ok THEN DecodeError(s, cur, t.err)
        ELSE DecodedTo([s EXCEPT ![HasherFlags[(t.v % 7) + 1]] = TRUE], t.cur))

\* func (s *StorageHasherV11) Decode: sets the flag of the discriminant read.
DecodeStorageHasherV11(s, b, cur) ==
    With(DecodeUint8(b, cur), LAMBDA t :
        IF ~t.ok THEN DecodeError(s, cur, t.err)
        ELSE IF t.v <= 6
             THEN DecodedTo([s EXCEPT ![HasherFlags[t.v + 1]] = TRUE], t.cur)
        ELSE DecodeError(s, t.cur, UnexpectedHasher))

\* The discriminant of the first flag set, in the order of the switch.
FirstSet(s, flags) ==
    CHOOSE i \in 1..Len(flags) :
        /\ s[flags[i]]
        /\ \A j \in 1..(i - 1) : ~s[flags[j]]

AnySet(s, flags) == \E i \in 1..Len(flags) : s[flags[i]]

\* func (s StorageHasherV11) Encode
EncodeStorageHasherV11(s) ==
    IF AnySet(s, HasherFlags) THEN PushByte(FirstSet(s, HasherFlags) - 1)
    ELSE EncodeError(NoHasherSet)

\* ---------------------------------------- MapTypeV11, DoubleMapTypeV11

MapTypeV11(hasher, key, value, linked) ==
    [Hasher |-> hasher, Key |-> key, Value |-> value, Linked |-> linked]

DoubleMapTypeV11(hasher, key1, key2, value, key2Hasher) ==
    [Hasher |-> hasher, Key1 |-> key1, Key2 |-> key2, Value |-> value,
     Key2Hasher |-> key2Hasher]

ZeroMap == MapTypeV11(ZeroHasher, <<>>, <<>>, FALSE)
ZeroDoubleMap == DoubleMapTypeV11(ZeroHasher, <<>>, <<>>, <<>>, ZeroHasher)

\* A struct is its fields in order.
EncodeMapTypeV11(mp) ==
    Then(Then(Then(EncodeStorageHasherV11(mp.Hasher), EncodeText(mp.Key)),
              EncodeText(mp.Value)), EncodeBool(mp.Linked))

EncodeDoubleMapTypeV11(dm) ==
    Then(Then(Then(Then(EncodeStorageHasherV11(dm.Hasher), EncodeText(dm.Key1)),
                   EncodeText(dm.Key2)), EncodeText(dm.Value)),
         EncodeStorageHasherV11(dm.Key2Hasher))

\* decoder.Decode into the field of a MapTypeV11 or DoubleMapTypeV11 value.
DecodeMapField(v, field, b, cur) ==
    CASE field \in {"Hasher", "Key2Hasher"} -> DecodeStorageHasherV11(v[field], b, cur)
      [] field = "Linked" -> Overwrite(v[field], cur, DecodeBool(b, cur))
      [] OTHER -> Overwrite(v[field], cur, DecodeText(b, cur))

\* Decoding a struct decodes into its fields in order, stopping at the
\* first error; the fields decoded before it keep what was decoded.
RECURSIVE DecodeMapFields(_, _, _)
DecodeMapFields(s, fields, b) ==
    With(s, LAMBDA t :
        IF fields = <<>> \/ t.err # "" THEN t
        ELSE DecodeMapFields(
                 With(DecodeMapField(t.v, Head(fields), b, t.cur), LAMBDA r :
                     DecodeError([t.v EXCEPT ![Head(fields)] = r.v], r.cur, r.err)),
                 Tail(fields), b))

DecodeMapTypeV11(mp, b, cur) ==
    DecodeMapFields(DecodedTo(mp, cur), <<"Hasher", "Key", "Value", "Linked">>, b)

DecodeDoubleMapTypeV11(dm, b, cur) ==
    DecodeMapFields(DecodedTo(dm, cur),
                    <<"Hasher", "Key1", "Key2", "Value", "Key2Hasher">>, b)

\* ------------------------------------------------ StorageFunctionTypeV11

TypeFlags == <<"IsType", "IsMap", "IsDoubleMap">>

StorageType(isType, asType, isMap, asMap, isDoubleMap, asDoubleMap) ==
    [IsType |-> isType, AsType |-> asType, IsMap |-> isMap, AsMap |-> asMap,
     IsDoubleMap |-> isDoubleMap, AsDoubleMap |-> asDoubleMap]

ZeroType == StorageType(FALSE, <<>>, FALSE, ZeroMap, FALSE, ZeroDoubleMap)

UnexpectedType == "received unexpected type"
NoTypeSet == "expected to be either type, map or double map, but none was set"

\* func (s *StorageFunctionTypeV11) Decode: sets the flag of the discriminant
\* read, then decodes into the payload of that variant.
DecodeStorageFunctionTypeV11(s, b, cur) ==
    With(DecodeUint8(b, cur), LAMBDA t :
        IF ~t.ok THEN DecodeError(s, cur, t.err)
        ELSE CASE t.v = 0 ->
                    With(Overwrite(s.AsType, t.cur, DecodeText(b, t.cur)), LAMBDA r :
                        DecodeError([s EXCEPT !.IsType = TRUE, !.AsType = r.v],
                                    r.cur, r.err))
               [] t.v = 1 ->
                    With(DecodeMapTypeV11(s.AsMap, b, t.cur), LAMBDA r :
                        DecodeError([s EXCEPT !.IsMap = TRUE, !.AsMap = r.v],
                                    r.cur, r.err))
               [] t.v = 2 ->
                    With(DecodeDoubleMapTypeV11(s.AsDoubleMap, b, t.cur), LAMBDA r :
                        DecodeError([s EXCEPT !.IsDoubleMap = TRUE,
                                              !.AsDoubleMap = r.v],
                                    r.cur, r.err))
               [] OTHER -> DecodeError(s, t.cur, UnexpectedType))

\* func (s StorageFunctionTypeV11) Encode
EncodeStorageFunctionTypeV11(s) ==
    CASE s.IsType -> Then(PushByte(0), EncodeText(s.AsType))
      [] ~s.IsType /\ s.IsMap -> Then(PushByte(1), EncodeMapTypeV11(s.AsMap))
      [] ~s.IsType /\ ~s.IsMap /\ s.IsDoubleMap ->
            Then(PushByte(2), EncodeDoubleMapTypeV11(s.AsDoubleMap))
      [] OTHER -> EncodeError(NoTypeSet)

\* ------------------------------------------------------------- sequences

\* The calls of rs in order, up to and including the first that fails.
RECURSIVE EncodeEach(_)
EncodeEach(rs) ==
    With(rs, LAMBDA t :
        IF t = <<>> THEN Wrote(<<>>) ELSE Then(Head(t), EncodeEach(Tail(t))))

\* An ordered sequence is its compact length, then its elements.
EncodeLength(s) == Wrote(EncodeCompact(Len(s)))

EncodeTexts(ts) ==
    Then(EncodeLength(ts), EncodeEach([i \in 1..Len(ts) |-> EncodeText(ts[i])]))

RECURSIVE DecodeTextsFrom(_, _, _, _)
DecodeTextsFrom(b, cur, k, acc) ==
    IF k = 0 THEN Got(acc, cur)
    ELSE With(DecodeText(b, cur), LAMBDA t :
             IF ~t.ok THEN t
             ELSE DecodeTextsFrom(b, t.cur, k - 1, Append(acc, t.v)))

\* The length read, when the input can hold that many elements (an element
\* is a byte at least, so a longer sequence runs out of input).
DecodeLength(b, cur) ==
    With(DecodeUintCompact(b, cur), LAMBDA n :
        IF n.ok /\ n.v > Len(b) THEN Fail(BufferUnderrun) ELSE n)

DecodeTexts(b, cur) ==
    With(DecodeLength(b, cur), LAMBDA n :
        IF ~n.ok THEN n ELSE DecodeTextsFrom(b, n.cur, n.v, <<>>))

\* ------------------ FunctionMetadataV4, EventMetadataV4, constants, errors

\* A named entry of a module's Calls, Events, Constants or Errors, with the
\* types of its fields.
Named(name, args) == [Name |-> name, Args |-> args]

EncodeNamed(e) == Then(EncodeText(e.Name), EncodeTexts(e.Args))

DecodeNamed(b, cur) ==
    With(DecodeText(b, cur), LAMBDA name :
        IF ~name.ok THEN name
        ELSE With(DecodeTexts(b, name.cur), LAMBDA args :
                 IF ~args.ok THEN args
                 ELSE Got(Named(name.v, args.v), args.cur)))

EncodeNamedList(es) ==
    Then(EncodeLength(es), EncodeEach([i \in 1..Len(es) |-> EncodeNamed(es[i])]))

RECURSIVE DecodeNamedFrom(_, _, _, _)
DecodeNamedFrom(b, cur, k, acc) ==
    IF k = 0 THEN Got(acc, cur)
    ELSE With(DecodeNamed(b, cur), LAMBDA e :
             IF ~e.ok THEN e
             ELSE DecodeNamedFrom(b, e.cur, k - 1, Append(acc, e.v)))

DecodeNamedList(b, cur) ==
    With(DecodeLength(b, cur), LAMBDA n :
        IF ~n.ok THEN n ELSE DecodeNamedFrom(b, n.cur, n.v, <<>>))

\* -------------------------- StorageFunctionMetadataV11, StorageMetadataV11

StorageFunctionMetadataV11(name, modifier, type, fallback, documentation) ==
    [Name |-> name, Modifier |-> modifier, Type |-> type, Fallback |-> fallback,
     Documentation |-> documentation]

\* The fields in order; the modifier is a one-byte variant with no payload.
EncodeStorageFunctionMetadataV11(e) ==
    EncodeEach(<<EncodeText(e.Name), PushByte(e.Modifier),
                 EncodeStorageFunctionTypeV11(e.Type), EncodeText(e.Fallback),
                 EncodeTexts(e.Documentation)>>)

\* decoder.Decode into the field of a StorageFunctionMetadataV11.
DecodeItemField(v, field, b, cur) ==
    CASE field \in {"Name", "Fallback"} -> Overwrite(v[field], cur, DecodeText(b, cur))
      [] field = "Modifier" -> Overwrite(v[field], cur, DecodeUint8(b, cur))
      [] field = "Type" -> DecodeStorageFunctionTypeV11(v[field], b, cur)
      [] field = "Documentation" -> Overwrite(v[field], cur, DecodeTexts(b, cur))

RECURSIVE DecodeItemFields(_, _, _)
DecodeItemFields(s, fields, b) ==
    With(s, LAMBDA t :
        IF fields = <<>> \/ t.err # "" THEN t
        ELSE DecodeItemFields(
                 With(DecodeItemField(t.v, Head(fields), b, t.cur), LAMBDA r :
                     DecodeError([t.v EXCEPT ![Head(fields)] = r.v], r.cur, r.err)),
                 Tail(fields), b))

\* Each element of a decoded sequence is decoded into a new value.
DecodeStorageFunctionMetadataV11(b, cur) ==
    With(DecodeItemFields(
             DecodedTo(StorageFunctionMetadataV11(<<>>, 0, ZeroType, <<>>, <<>>), cur),
             <<"Name", "Modifier", "Type", "Fallback", "Documentation">>, b),
         LAMBDA r : IF r.err # "" THEN Fail(r.err) ELSE Got(r.v, r.cur))

EncodeItems(items) ==
    Then(EncodeLength(items),
         EncodeEach([i \in 1..Len(items) |->
                        EncodeStorageFunctionMetadataV11(items[i])]))

RECURSIVE DecodeItemsFrom(_, _, _, _)
DecodeItemsFrom(b, cur, k, acc) ==
    IF k = 0 THEN Got(acc, cur)
    ELSE With(DecodeStorageFunctionMetadataV11(b, cur), LAMBDA e :
             IF ~e.ok THEN e
             ELSE DecodeItemsFrom(b, e.cur, k - 1, Append(acc, e.v)))

DecodeItems(b, cur) ==
    With(DecodeLength(b, cur), LAMBDA n :
        IF ~n.ok THEN n ELSE DecodeItemsFrom(b, n.cur, n.v, <<>>))

\* StorageMetadataV11 with its prefix as bytes.
Storage(prefix, items) == [Prefix |-> prefix, Items |-> items]

ZeroStorage == Storage(<<>>, <<>>)

EncodeStorageMetadataV11(st) == Then(EncodeText(st.Prefix), EncodeItems(st.Items))

DecodeStorageMetadataV11(b, cur) ==
    With(DecodeText(b, cur), LAMBDA prefix :
        IF ~prefix.ok THEN prefix
        ELSE With(DecodeItems(b, prefix.cur), LAMBDA items :
                 IF ~items.ok THEN items
                 ELSE Got(Storage(prefix.v, items.v), items.cur)))

\* ----------------------------------------------------- ModuleMetadataV11

\* ModuleMetadataV11 with its name as bytes, and its constants and errors.
Module(name, hs, st, hc, calls, he, events, constants, errors) ==
    [Name |-> name, HasStorage |-> hs, Storage |-> st, HasCalls |-> hc,
     Calls |-> calls, HasEvents |-> he, Events |-> events,
     Constants |-> constants, Errors |-> errors]

ZeroModule == Module(<<>>, FALSE, ZeroStorage, FALSE, <<>>, FALSE, <<>>, <<>>, <<>>)

SectionAlways(flag) == TRUE

\* if m.HasStorage { ... }, if m.HasCalls { ... }, if m.HasEvents { ... }
Section(flag) == flag

\* A section of the module: decoded when its flag was read as true, left as
\* it is otherwise.
DecodeSection(flag, old, cur, r) ==
    IF Section(flag) THEN Overwrite(old, cur, r) ELSE DecodedTo(old, cur)

\* The statement of Decode for the field: decoder.Decode(&m.Name), ...,
\* if m.HasStorage { decoder.Decode(&m.Storage) }, ...
DecodeModuleField(md, field, b, cur) ==
    CASE field = "Name" -> Overwrite(md.Name, cur, DecodeText(b, cur))
      [] field \in {"HasStorage", "HasCalls", "HasEvents"} ->
            Overwrite(md[field], cur, DecodeBool(b, cur))
      [] field = "Storage" ->
            DecodeSection(md.HasStorage, md.Storage, cur,
                          DecodeStorageMetadataV11(b, cur))
      [] field = "Calls" ->
            DecodeSection(md.HasCalls, md.Calls, cur, DecodeNamedList(b, cur))
      [] field = "Events" ->
            DecodeSection(md.HasEvents, md.Events, cur, DecodeNamedList(b, cur))
      [] field \in {"Constants", "Errors"} ->
            Overwrite(md[field], cur, DecodeNamedList(b, cur))

\* The statements of Decode in order, returning at the first error: a
\* field that fails to decode is left as it was, the fields before it keep
\* what was decoded.
RECURSIVE DecodeModuleFields(_, _, _)
DecodeModuleFields(s, fields, b) ==
    With(s, LAMBDA t :
        IF fields = <<>> \/ t.err # "" THEN t
        ELSE DecodeModuleFields(
                 With(DecodeModuleField(t.v, Head(fields), b, t.cur), LAMBDA r :
                     DecodeError([t.v EXCEPT ![Head(fields)] = r.v], r.cur, r.err)),
                 Tail(fields), b))

\* func (m *ModuleMetadataV11) Decode
DecodeModuleMetadataV11(md, b, cur) ==
    DecodeModuleFields(DecodedTo(md, cur),
                       <<"Name", "HasStorage", "Storage", "HasCalls", "Calls",
                         "HasEvents", "Events", "Constants", "Errors">>, b)

\* A section of the module: written when its flag is true.
EncodeSection(flag, r) == IF flag THEN r ELSE Wrote(<<>>)

\* func (m ModuleMetadataV11) Encode
EncodeModuleMetadataV11(md) ==
    EncodeEach(<<EncodeText(md.Name),
                 EncodeBool(md.HasStorage),
                 EncodeSection(md.HasStorage, EncodeStorageMetadataV11(md.Storage)),
                 EncodeBool(md.HasCalls),
                 EncodeSection(md.HasCalls, EncodeNamedList(md.Calls)),
                 EncodeBool(md.HasEvents),
                 EncodeSection(md.HasEvents, EncodeNamedList(md.Events)),
                 EncodeNamedList(md.Constants),
                 EncodeNamedList(md.Errors)>>)

\* -------------------------------------------------------------- UCompact

\* The first value of each class of the compact encoding but the first.
TwoByteMin == 64
FourByteMin == 16384
LengthPrefixedMin == 1073741824

\* k bytes of u, the most significant first.
RECURSIVE BigEndianBytes(_, _)
BigEndianBytes(u, k) ==
    IF k = 0 THEN <<>> ELSE Append(BigEndianBytes(u \div 256, k - 1), u % 256)

EncodeUintCompactLate(u) ==
    IF u <= TwoByteMin THEN <<(4 * u) % 256>>
    ELSE IF u <= FourByteMin THEN <<(4 * (u % 64) + 1) % 256, (u \div 64) % 256>>
    ELSE IF u <= LengthPrefixedMin
         THEN <<4 * (u % 64) + 2, (u \div 64) % 256, (u \div 16384) % 256,
                (u \div 4194304) % 256>>
    ELSE <<3>> \o BigEndianBytes(u, 4)

\* encoder.EncodeUintCompact: the shortest class that holds u; the value in
\* the bits above the two class bits, least significant byte first, and in
\* the length-prefixed class in four bytes (all a value up to MaxInt needs)
\* behind a byte holding their number less four.
EncodeUintCompact(u) ==
    IF u < TwoByteMin THEN <<4 * u>>
    ELSE IF u < FourByteMin THEN <<4 * (u % 64) + 1, u \div 64>>
    ELSE IF u < LengthPrefixedMin
         THEN <<4 * (u % 64) + 2, (u \div 64) % 256, (u \div 16384) % 256,
                (u \div 4194304) % 256>>
    ELSE <<3>> \o BigEndianBytes(u, 4)

\* type UCompact uint64, and the conversion UCompact(ui)
UCompact(ui) == [UCompact |-> ui]

\* func (u UCompact) Encode
EncodeUCompact(u) == Wrote(EncodeUintCompact(u.UCompact))

\* func (u *UCompact) Decode
DecodeUCompact(u, b, cur) ==
    With(DecodeUintCompact(b, cur), LAMBDA ui :
        IF ~ui.ok THEN DecodeError(u, cur, ui.err)
        ELSE DecodedTo(UCompact(ui.v), ui.cur))

\* ------------------------------------------------------ the codec machine

\* The hasher selector with the flag of discriminant t only.
HasherOf(t) == StorageHasherV11([i \in 1..7 |-> i = t + 1])

\* The map and double map payloads tried.
Maps ==
    {ZeroMap} \cup
    { MapTypeV11(h, <<75>>, <<86>>, l) :
        h \in {HasherOf(0), HasherOf(5), ZeroHasher}, l \in BOOLEAN }

DoubleMaps ==
    {ZeroDoubleMap} \cup
    { DoubleMapTypeV11(h, <<75>>, <<76>>, <<86>>, h2) :
        h \in {HasherOf(0), HasherOf(6)}, h2 \in {HasherOf(1), HasherOf(6)} }

\* The StorageFunctionTypeV11 values tried: every combination of the flags
\* with every combination of the payloads.
StorageTypes ==
    { StorageType(t, asType, mp, asMap, dm, asDoubleMap) :
        t \in BOOLEAN, asType \in {<<>>, <<84>>},
        mp \in BOOLEAN, asMap \in Maps,
        dm \in BOOLEAN, asDoubleMap \in DoubleMaps }

\* The bytes given to StorageHasherV11.Decode: nothing, and every byte.
HasherInputs == {<<>>} \cup { <<b>> : b \in 0..(U8 - 1) }

\* The bytes given to StorageFunctionTypeV11.Decode: nothing, every byte
\* with no payload behind it, the first discriminants with the start of a
\* payload, and what Encode writes for the values tried.
TypeInputs ==
    {<<>>} \cup { <<b>> : b \in 0..(U8 - 1) }
           \cup { <<b, 0>> : b \in 0..3 }
           \cup { EncodeStorageFunctionTypeV11(s).bytes : s \in StorageTypes }

\* The storage entries tried: a plain type, a map, a type with two flags set
\* and a type with none.
PlainEntry ==
    StorageFunctionMetadataV11(<<120>>, 0,
        StorageType(TRUE, <<84>>, FALSE, ZeroMap, FALSE, ZeroDoubleMap), <<0>>, <<>>)

MapEntry ==
    StorageFunctionMetadataV11(<<121>>, 1,
        StorageType(FALSE, <<>>, TRUE, MapTypeV11(HasherOf(5), <<75>>, <<86>>, TRUE),
                    FALSE, ZeroDoubleMap),
        <<>>, <<<<100>>>>)

TwoFlagEntry ==
    StorageFunctionMetadataV11(<<122>>, 0,
        StorageType(TRUE, <<84>>, TRUE, ZeroMap, FALSE, ZeroDoubleMap), <<>>, <<>>)

NoFlagEntry == StorageFunctionMetadataV11(<<119>>, 0, ZeroType, <<>>, <<>>)

Storages ==
    { ZeroStorage,
      Storage(<<80>>, <<>>),
      Storage(<<80>>, <<PlainEntry>>),
      Storage(<<80>>, <<MapEntry, PlainEntry>>),
      Storage(<<>>, <<TwoFlagEntry>>),
      Storage(<<80>>, <<PlainEntry, NoFlagEntry>>) }

\* The ModuleMetadataV11 values tried: every combination of the three flags
\* with sections that are empty or not, whatever the flags say.
Modules ==
    { Module(name, hs, st, hc, calls, he, events, constants, errors) :
        name \in {<<>>, <<65>>},
        hs \in BOOLEAN, st \in Storages,
        hc \in BOOLEAN,
        calls \in {<<>>, <<Named(<<102>>, <<>>)>>,
                   <<Named(<<102>>, <<<<84>>>>), Named(<<103>>, <<>>)>>},
        he \in BOOLEAN, events \in {<<>>, <<Named(<<101>>, <<<<117>>, <<84>>>>)>>},
        constants \in {<<>>, <<Named(<<99>>, <<>>)>>},
        errors \in {<<>>, <<Named(<<114>>, <<>>)>>} }

\* The beginnings of bytes.
Prefixes(bytes) == { SubSeq(bytes, 1, k) : k \in 0..Len(bytes) }

\* The bytes given to ModuleMetadataV11.Decode: a module with every section,
\* cut at every byte.
ModuleInputs ==
    Prefixes(EncodeModuleMetadataV11(
        Module(<<65>>, TRUE, Storage(<<80>>, <<MapEntry, PlainEntry>>),
               TRUE, <<Named(<<102>>, <<>>)>>, TRUE, <<Named(<<101>>, <<<<117>>>>)>>,
               <<Named(<<99>>, <<>>)>>, <<Named(<<114>>, <<>>)>>)).bytes)

\* The UCompact values tried: the ends of every class, and their neighbours.
UCompacts ==
    {0, 1, 62, 63, TwoByteMin, TwoByteMin + 1, 255, 256, FourByteMin - 1,
     FourByteMin, FourByteMin + 1, 65535, 65536, LengthPrefixedMin - 1,
     LengthPrefixedMin, LengthPrefixedMin + 1, MaxInt - 1, MaxInt}

\* The bytes given to UCompact.Decode: values in a longer class than they
\* need, every class cut short, bytes behind a value.
UCompactInputs ==
    { <<>>, <<0>>, <<252>>, <<1>>, <<1, 0>>, <<253, 0>>, <<5, 1>>, <<253, 255>>,
      <<2>>, <<2, 0>>, <<2, 0, 0>>, <<2, 0, 0, 0>>, <<254, 255, 0, 0>>,
      <<254, 255, 255, 255>>, <<6, 0, 1, 0, 9>>,
      <<3>>, <<3, 0, 0, 0>>, <<3, 0, 0, 0, 0>>, <<3, 0, 0, 0, 63>>,
      <<3, 64, 0, 0, 0>>, <<3, 127, 255, 255, 255, 9>>,
      <<7, 0, 0, 0, 0>>, <<7, 0, 64, 0, 0, 0>>, <<4, 1>>, <<8, 2, 3>> }

KindHasher == "StorageHasherV11"
KindType == "StorageFunctionTypeV11"
KindModule == "ModuleMetadataV11"
KindUCompact == "UCompact"

Zero(kind) ==
    CASE kind = KindHasher -> ZeroHasher
      [] kind = KindType -> ZeroType
      [] kind = KindModule -> ZeroModule
      [] kind = KindUCompact -> UCompact(0)

\* A value of the kind to call Encode on.
Value(kind, v) == [kind |-> kind, has |-> TRUE, v |-> v]

\* No value to encode: Decode is given bytes from elsewhere.
BytesOnly(kind) == [kind |-> kind, has |-> FALSE, v |-> Zero(kind)]

\* A new value of the kind, not decoded into yet.
Fresh(kind) ==
    [n |-> 0, v |-> Zero(kind), cur |-> 1, err |-> "", input |-> <<>>,
     before |-> Zero(kind)]

Values ==
    { Value(KindHasher, s) : s \in StorageHashers }
    \cup { Value(KindType, s) : s \in StorageTypes }
    \cup { Value(KindModule, md) : md \in Modules }
    \cup { Value(KindUCompact, UCompact(u)) : u \in UCompacts }

Kinds == {KindHasher, KindType, KindModule, KindUCompact}

InitCodec ==
    /\ val \in Values \cup { BytesOnly(k) : k \in Kinds }
    /\ wire = NoWire
    /\ into = Fresh(val.kind)
    /\ m = [Modules |-> <<>>]
    /\ ret = NoCall
    /\ HashIdle
    /\ EventsIdle

\* v.Encode(encoder) on the value, once.
CallEncode(kind, r) ==
    /\ val.kind = kind
    /\ val.has
    /\ ~wire.written
    /\ wire' = With(r, LAMBDA q : [written |-> TRUE, bytes |-> q.bytes, err |-> q.err])
    /\ UNCHANGED <<val, into, metaVars, hashVars, eventVars>>

\* The bytes a decoder is made over: what Encode wrote for the value, or
\* with no value the inputs tried.
DecoderInputs(inputs) ==
    IF val.has
    THEN IF wire.written /\ wire.err = "" THEN {wire.bytes} ELSE {}
    ELSE inputs

\* What into holds after a Decode over b returned r.
After(b, r) ==
    With(r, LAMBDA q :
        [n |-> into.n + 1, v |-> q.v, cur |-> q.cur, err |-> q.err, input |-> b,
         before |-> into.v])

\* A value is decoded into when new, and once more holding that result.
MayDecode(kind) ==
    /\ val.kind = kind
    /\ into.n \in {0, 1}

CallEncodeStorageHasherV11 ==
    CallEncode(KindHasher, EncodeStorageHasherV11(val.v))

CallDecodeStorageHasherV11 ==
    /\ MayDecode(KindHasher)
    /\ \E b \in DecoderInputs(HasherInputs) :
          into' = After(b, DecodeStorageHasherV11(into.v, b, 1))
    /\ UNCHANGED <<val, wire, metaVars, hashVars, eventVars>>

CallEncodeStorageFunctionTypeV11 ==
    CallEncode(KindType, EncodeStorageFunctionTypeV11(val.v))

CallDecodeStorageFunctionTypeV11 ==
    /\ MayDecode(KindType)
    /\ \E b \in DecoderInputs(TypeInputs) :
          into' = After(b, DecodeStorageFunctionTypeV11(into.v, b, 1))
    /\ UNCHANGED <<val, wire, metaVars, hashVars, eventVars>>

CallEncodeModuleMetadataV11 ==
    CallEncode(KindModule, EncodeModuleMetadataV11(val.v))

CallDecodeModuleMetadataV11 ==
    /\ MayDecode(KindModule)
    /\ \E b \in DecoderInputs(ModuleInputs) :
          into' = After(b, DecodeModuleMetadataV11(into.v, b, 1))
    /\ UNCHANGED <<val, wire, metaVars, hashVars, eventVars>>

CallEncodeUCompact ==
    CallEncode(KindUCompact, EncodeUCompact(val.v))

CallDecodeUCompact ==
    /\ MayDecode(KindUCompact)
    /\ \E b \in DecoderInputs(UCompactInputs) :
          into' = After(b, DecodeUCompact(into.v, b, 1))
    /\ UNCHANGED <<val, wire, metaVars, hashVars, eventVars>>

NextCodec ==
    \/ CallEncodeStorageHasherV11
    \/ CallDecodeStorageHasherV11
    \/ CallEncodeStorageFunctionTypeV11
    \/ CallDecodeStorageFunctionTypeV11
    \/ CallEncodeModuleMetadataV11
    \/ CallDecodeModuleMetadataV11
    \/ CallEncodeUCompact
    \/ CallDecodeUCompact

SpecCodec == InitCodec /\ [][NextCodec]_vars

\* ================================================================ claims

Min(S) == CHOOSE x \in S : \A y \in S : x <= y

Indices(md) == 1..Len(md.Modules)

\* The first module with HasCalls = TRUE named mn (0: there is none).
FirstCallModule(md, mn) ==
    LET named == {i \in Indices(md) : md.Modules[i].HasCalls /\ md.Modules[i].Name = mn}
    IN  IF named = {} THEN 0 ELSE Min(named)

\* How many modules with HasCalls = TRUE precede the i-th module.
CallModulesBefore(md, i) ==
    Cardinality({j \in Indices(md) : j < i /\ md.Modules[j].HasCalls})

\* The 0-based positions of the name c in a list of calls (or events, or items).
PositionsOf(list, c) == {p \in 0..(Len(list) - 1) : list[p + 1].Name = c}

IsCall == ret.op = "FindCallIndex"
Query == Split(ret.arg[1])

\* C1 as stated: on success the module index is the number of call-bearing
\* modules before the matched module and the call index is the position of the
\* call in its Calls list; "B.f" and "C.h" on [A(no calls), B(f), C(g,h)] give
\* (0,0) and (1,1).
C1_IndexIsCount ==
    (IsCall /\ ret.out.kind = "ok") =>
        LET i == FirstCallModule(m, Query[1])
        IN  /\ i # 0
            /\ ret.out.val[1] = CallModulesBefore(m, i)
            /\ PositionsOf(m.Modules[i].Calls, Query[2]) # {}
            /\ ret.out.val[2] = Min(PositionsOf(m.Modules[i].Calls, Query[2]))

\* C1 (amended): on success the module index is the number of call-bearing
\* modules before the matched module, and the call index the first position of
\* the call in its Calls list, each reduced modulo 256 (both are uint8); modules
\* without calls consume no slot, and the example resolves to (0,0) and (1,1).
C1_IndexIsCountMod256 ==
    /\ (IsCall /\ ret.out.kind = "ok") =>
            LET i == FirstCallModule(m, Query[1])
            IN  /\ Len(Query) >= 2
                /\ i # 0
                /\ ret.out.val[1] = CallModulesBefore(m, i) % U8
                /\ PositionsOf(m.Modules[i].Calls, Query[2]) # {}
                /\ ret.out.val[2] = Min(PositionsOf(m.Modules[i].Calls, Query[2])) % U8
    /\ (IsCall /\ m.Modules = ExampleModules) =>
            /\ ret.arg[1] = <<"B", ".", "f">> => ret.out = Ok(<<0, 0>>)
            /\ ret.arg[1] = <<"C", ".", "h">> => ret.out = Ok(<<1, 1>>)

\* A successful lookup whose matched module comes after a module without calls
\* and after a call-bearing one, for a call that is not the first of its module.
C1_Witness ==
    /\ IsCall /\ ret.out.kind = "ok"
    /\ ret.out.val[1] >= 1 /\ ret.out.val[2] >= 1
    /\ \E j \in Indices(m) :
           j < FirstCallModule(m, Query[1]) /\ ~m.Modules[j].HasCalls

\* C2: FindCallIndex("M.c") fails, with a not-found error, exactly when no
\* module with HasCalls = TRUE is named M or c is not a call of the (first)
\* call-bearing module named M; modules without calls never match, whatever
\* their name.
C2_NotFoundExactly ==
    (IsCall /\ Len(Query) >= 2) =>
        LET i == FirstCallModule(m, Query[1])
            noModule == i = 0
            noCall == i # 0 /\ PositionsOf(m.Modules[i].Calls, Query[2]) = {}
        IN  /\ ret.out.kind \in {"ok", "err"}
            /\ ret.out.kind = "err" <=> (noModule \/ noCall)
            /\ noModule => ret.out = Err("module not found in metadata", ZeroCallIndex)
            /\ noCall => ret.out = Err("method not found within module", ZeroCallIndex)

\* A query answered from a call-bearing module that comes after a module of
\* the same name without a Calls section.
C2_Witness ==
    /\ IsCall /\ ret.out.kind = "ok"
    /\ \E j \in Indices(m) :
           /\ j < FirstCallModule(m, Query[1])
           /\ m.Modules[j].Name = Query[1]
           /\ ~m.Modules[j].HasCalls

\* The modules with HasEvents = TRUE, as their indices in declaration order.
EventModules(md) == {i \in Indices(md) : md.Modules[i].HasEvents}

\* The k-th (from 0) module with HasEvents = TRUE (0: there are not that many).
NthEventModule(md, k) ==
    LET at == {i \in EventModules(md) :
                  Cardinality({j \in EventModules(md) : j < i}) = k}
    IN  IF at = {} THEN 0 ELSE Min(at)

IsEvent == ret.op = "FindEventNamesForEventID"

\* C3: FindEventNamesForEventID((mi, ei)) returns the name of the mi-th
\* event-bearing module and of its ei-th event when both exist; otherwise no
\* names and "module index out of range" (fewer than mi+1 event-bearing
\* modules) or "event index out of range" (ei >= number of events).
C3_EventNames ==
    IsEvent =>
        LET i == NthEventModule(m, ret.arg[1])
        IN  IF i = 0 THEN ret.out = Err("module index out of range", NoNames)
            ELSE IF ret.arg[2] >= Len(m.Modules[i].Events)
                 THEN ret.out = Err("event index out of range", NoNames)
            ELSE ret.out = Ok(<<m.Modules[i].Name, m.Modules[i].Events[ret.arg[2] + 1].Name>>)

\* Names found for a module index above 0 where a module without events
\* precedes the module found.
C3_Witness ==
    /\ IsEvent /\ ret.out.kind = "ok" /\ ret.arg[1] >= 1 /\ ret.arg[2] >= 1
    /\ \E j \in Indices(m) : j < NthEventModule(m, ret.arg[1]) /\ ~m.Modules[j].HasEvents

IsStorage == ret.op = "FindStorageEntryMetadata"

\* The storage-bearing modules whose storage prefix is p.
PrefixModules(md, p) ==
    {i \in Indices(md) : md.Modules[i].HasStorage /\ md.Modules[i].Storage.Prefix = p}

\* C4 as stated: the entry named item is returned whenever some storage-bearing
\* module with the prefix declares it, and the call fails with a not-found
\* error when no storage-bearing module has the prefix or the item is absent.
C4_FoundWheneverDeclared ==
    IsStorage =>
        LET declaring == {i \in PrefixModules(m, ret.arg[1]) :
                             PositionsOf(m.Modules[i].Storage.Items, ret.arg[2]) # {}}
        IN  IF declaring # {}
            THEN /\ ret.out.kind = "ok"
                 /\ ret.out.val[1].Name = ret.arg[2]
            ELSE ret.out.kind = "err"

\* C4 (amended): the lookup is decided by the first storage-bearing module whose
\* storage prefix equals module (never by position or by the module's Name):
\* the first of its items named item is returned when there is one, "storage
\* not found" when it has none, "module not found" when no storage-bearing
\* module has that prefix.
C4_FirstPrefixModuleDecides ==
    IsStorage =>
        LET with == PrefixModules(m, ret.arg[1])
        IN  IF with = {} THEN ret.out = Err("module not found in metadata", <<>>)
            ELSE LET items == m.Modules[Min(with)].Storage.Items
                     at == PositionsOf(items, ret.arg[2])
                 IN  IF at = {} THEN ret.out = Err("storage not found within module", <<>>)
                     ELSE ret.out = Ok(<<items[Min(at) + 1]>>)

\* An entry found in a module whose Name differs from the prefix asked for,
\* after a storage-bearing module that has that Name.
C4_Witness ==
    /\ IsStorage /\ ret.out.kind = "ok"
    /\ LET i == Min(PrefixModules(m, ret.arg[1]))
       IN  /\ m.Modules[i].Name # ret.arg[1]
           /\ \E j \in Indices(m) :
                  j < i /\ m.Modules[j].HasStorage /\ m.Modules[j].Name = ret.arg[1]

\* ------------------------------------------------ claims on the hashers

RECURSIVE WriteAll(_, _)
WriteAll(h, chunks) ==
    IF chunks = <<>> THEN h ELSE WriteAll(Write(h, Head(chunks)), Tail(chunks))

Written == Flatten(log)

ByNew128Concat == made.by = "New128Concat" /\ made.err = ""

\* C5: for a hasher from New128Concat(key), Sum(nil) after writes w1..wn and no
\* Reset is the 16-byte digest of w1||...||wn followed by exactly w1||...||wn.
C5_SumIsDigestThenInput ==
    (ByNew128Concat /\ ~resets /\ sum.valid) =>
        sum.bytes = Blake2bDigest(16, made.arg, Written) \o Written

\* What C5 says, for the nil key only (the one HashFunc passes).
NilKeySumIsDigestThenInput ==
    (ByNew128Concat /\ made.arg = <<>> /\ ~resets /\ sum.valid) =>
        sum.bytes = Blake2bDigest(16, made.arg, Written) \o Written

\* C6: after any Write/Sum/Reset sequence, Sum(nil) is what a hasher freshly
\* made with the same constructor argument returns after the writes made since
\* the last Reset.
C6_ResetGivesFreshHasher ==
    (ByNew128Concat /\ sum.valid) =>
        sum.bytes = Sum(WriteAll(New128Concat(made.arg).h, log), <<>>)

\* What C6 says, for the nil key only.
NilKeyResetGivesFreshHasher ==
    (ByNew128Concat /\ made.arg = <<>> /\ sum.valid) =>
        sum.bytes = Sum(WriteAll(New128Concat(made.arg).h, log), <<>>)

Flags(s) ==
    <<s.IsBlake2_128, s.IsBlake2_256, s.IsBlake2_128Concat, s.IsTwox128, s.IsTwox256,
      s.IsTwox64Concat, s.IsIdentity>>

FlagsSet(s) == {i \in 1..7 : Flags(s)[i]}

\* The hash a construction yields for the input w.
Blake2b128Of(w) == Blake2bDigest(16, <<>>, w)
Blake2b256Of(w) == Blake2bDigest(32, <<>>, w)
Blake2b128ConcatOf(w) == Blake2bDigest(16, <<>>, w) \o w
Twox128Of(w) == XxhashDigest(128, w)
Twox256Of(w) == XxhashDigest(256, w)
Twox64ConcatOf(w) == XxhashDigest(64, w) \o w

ByHashFunc == made.by = "HashFunc"

\* The hash the construction named by the single flag of s yields for w.
ExpectedHash(s, w) ==
    CASE s.IsBlake2_128 -> Blake2b128Of(w)
      [] s.IsBlake2_256 -> Blake2b256Of(w)
      [] s.IsBlake2_128Concat -> Blake2b128ConcatOf(w)
      [] s.IsTwox128 -> Twox128Of(w)
      [] s.IsTwox256 -> Twox256Of(w)
      [] s.IsTwox64Concat -> Twox64ConcatOf(w)
      [] s.IsIdentity -> Blake2b128ConcatOf(w)

OnlyBlake2_128Concat == StorageHasherV11(<<FALSE, FALSE, TRUE, FALSE, FALSE, FALSE, FALSE>>)

\* C7: HashFunc maps a selector with exactly one flag set to its construction
\* (Identity to the same Blake2b-128 concat construction as Blake2_128Concat,
\* never a pass-through of the key), and a selector with no flag set to an
\* error and no hasher.
C7_HashFuncTable ==
    /\ (ByHashFunc /\ FlagsSet(made.arg) = {}) => (made.err # "" /\ d = NoHash)
    /\ (ByHashFunc /\ Cardinality(FlagsSet(made.arg)) = 1) =>
            /\ made.err = "" /\ d # NoHash
            /\ d.type = CASE made.arg.IsBlake2_128 \/ made.arg.IsBlake2_256 -> "blake2b"
                          [] made.arg.IsBlake2_128Concat \/ made.arg.IsIdentity -> "digestConcat128"
                          [] made.arg.IsTwox128 \/ made.arg.IsTwox256 -> "xxhash"
                          [] made.arg.IsTwox64Concat -> "xxhashConcat"
            /\ made.arg.IsIdentity => d = WriteAll(HashFunc(OnlyBlake2_128Concat).h, log)
            /\ sum.valid =>
                   /\ Len(sum.bytes) = Len(ExpectedHash(made.arg, Written))
                   /\ sum.bytes = ExpectedHash(made.arg, Written)

\* The hasher selected for Identity alone has hashed a key that is not empty.
C7_Witness ==
    /\ ByHashFunc /\ FlagsSet(made.arg) = {7}
    /\ sum.valid /\ Written # <<>>
    /\ sum.bytes # Written

\* ------------------------------------------- claims on DecodeEventRecords

\* The Phase, EventID and field name of the record that starts at cur.
HeaderAt(md, b, cur) ==
    LET phase == DecodePhase(b, cur)
        id == DecodeEventID(b, phase.cur)
        names == FindEventNamesForEventID(md, id.v)
    IN  IF phase.ok /\ id.ok /\ names.kind = "ok"
        THEN [ok |-> TRUE, id |-> id.v, name |-> SlotName(names.val[1], names.val[2])]
        ELSE [ok |-> FALSE, id |-> <<>>, name |-> <<>>]

\* The step fails with the error e and binds nothing.
RejectsWith(e) ==
    /\ dec'.pc = "failed"
    /\ dec'.err = e
    /\ dest' = dest

ShapeErrors == {TooFewFields, FirstNotPhase, LastNotHashes}

\* C8: when the record DecodeEventRecords is at names a field of the
\* destination, the step fails, with the destination untouched, with the
\* "at least 2 fields" error if the field's element has fewer than 2 fields,
\* otherwise with the "first field" error if its first field is not Phase,
\* otherwise with the "last field" error if its last field is not []Hash,
\* whatever bytes follow the EventID; the error carries the record number,
\* the EventID and the field name; a well-shaped element gives no such error.
C8_ShapeValidatedFirst ==
    [][ LET h == HeaderAt(m, raw, dec.cur)
            k == IF h.ok THEN FieldByName(target, h.name) ELSE 0
        IN  (dec.pc = "decoding" /\ k # 0) =>
              LET shape == target[k].elem
                  n == Len(shape)
              IN  /\ n < 2 =>
                        RejectsWith(EventError(TooFewFields, dec.i, h.id, h.name, n, ""))
                  /\ (n >= 2 /\ shape[1] # TPhase) =>
                        RejectsWith(EventError(FirstNotPhase, dec.i, h.id, h.name, n, shape[1]))
                  /\ (n >= 2 /\ shape[1] = TPhase /\ shape[n] # THashes) =>
                        RejectsWith(EventError(LastNotHashes, dec.i, h.id, h.name, n, shape[n]))
                  /\ (n >= 2 /\ shape[1] = TPhase /\ shape[n] = THashes) =>
                        dec'.err.kind \notin ShapeErrors
      ]_vars

\* The second record of a stream, the first one passed, named a field whose
\* element has one field, not a Phase: the "at least 2 fields" error.
C8_Witness ==
    /\ dec.pc = "failed"
    /\ dec.err.kind = TooFewFields
    /\ dec.err.event = 1
    /\ dec.err.id = <<0, 0>>
    /\ target[FieldByName(target, dec.err.field)].elem = <<TUint8>>

\* The records of the stream b as the metadata lays them out: k records
\* from cur on, each with the name of its field and its decoded element.
RECURSIVE ReadRecords(_, _, _, _, _)
ReadRecords(md, b, cur, k, acc) ==
    IF k = 0 THEN [ok |-> TRUE, recs |-> acc]
    ELSE LET h == HeaderAt(md, b, cur)
             phase == DecodePhase(b, cur)
             rest == DecodeFieldsFrom(GoodShape(EventArgs(md, h.id)), 2, b,
                                      phase.cur + 2, <<PhaseVal(phase.v)>>)
         IN  IF ~h.ok THEN [ok |-> FALSE, recs |-> acc]
             ELSE IF ~rest.ok THEN [ok |-> FALSE, recs |-> acc]
             ELSE ReadRecords(md, b, rest.cur, k - 1,
                              Append(acc, [name |-> h.name, elem |-> rest.v]))

StreamRecords(md, b) ==
    LET n == DecodeUintCompact(b, 1)
    IN  IF n.ok THEN ReadRecords(md, b, n.cur, n.v, <<>>) ELSE [ok |-> FALSE, recs |-> <<>>]

\* The elements of the records called name, in stream order.
RecordsOf(recs, name) ==
    LET sel == SelectSeq(recs, LAMBDA r : r.name = name)
    IN  [j \in 1..Len(sel) |-> sel[j].elem]

\* Every slot holds the stream's records of its name, in order, as encoded.
SlotsHoldStream ==
    LET s == StreamRecords(m, raw)
    IN  /\ s.ok
        /\ \A k \in 1..Len(target) : dest[k] = RecordsOf(s.recs, target[k].name)

\* Every slot named after an event has Phase, the event's argument types in
\* order, and []Hash as its element's fields.
ShapesAgree(md, tgt) ==
    \A k \in 1..Len(tgt) : \A i \in 1..Len(md.Modules) :
        \A j \in 1..Len(md.Modules[i].Events) :
            (md.Modules[i].HasEvents
                /\ tgt[k].name = SlotName(md.Modules[i].Name, md.Modules[i].Events[j].Name))
            => tgt[k].elem = GoodShape(md.Modules[i].Events[j].Args)

\* C9 as stated: after a successful DecodeEventRecords every slot holds
\* exactly the stream's records of its name, in stream order and as encoded;
\* the other slots are empty, records without a slot change nothing.
C9_SlotsHoldStream == dec.pc = "done" => SlotsHoldStream

\* C9, amended: the same, for a destination that was empty before the call and
\* whose slots have the shape of their events (Phase, the event's argument
\* types, Topics).
C9_SlotsHoldStreamOfAgreedShape ==
    (dec.pc = "done" /\ ShapesAgree(m, target) /\ dec.before = ZeroDest(target))
        => SlotsHoldStream

\* A successful decode of three records: two different ones for the only
\* slot, and between them one of an event without a slot.
C9_Witness ==
    /\ dec.pc = "done"
    /\ ShapesAgree(m, target)
    /\ dec.before = ZeroDest(target)
    /\ Len(target) = 1
    /\ Len(dest[1]) = 2 /\ dest[1][1] # dest[1][2]
    /\ StreamRecords(m, raw).ok
    /\ Len(StreamRecords(m, raw).recs) = 3
    /\ StreamRecords(m, raw).recs[2].name # target[1].name

\* A step that changes the destination appends one whole element to one slot
\* and is not a failing step.
AppendsOnlyWholeRecords ==
    [][ dest' # dest =>
          /\ dec'.pc # "failed"
          /\ dec'.i = dec.i + 1
          /\ \E k \in 1..Len(target) :
                /\ Len(dest'[k]) = Len(dest[k]) + 1
                /\ SubSeq(dest'[k], 1, Len(dest[k])) = dest[k]
                /\ Len(dest'[k][Len(dest'[k])]) = Len(target[k].elem)
                /\ \A l \in 1..Len(target) : l # k => dest'[l] = dest[l]
      ]_vars

\* C10: DecodeEventRecords never partially commits: what it has appended are
\* whole elements (one value per field of the slot's element), and when the
\* call has failed the destination is as it was before the call.
C10_NoPartialCommit ==
    /\ \A k \in 1..Len(target) : \A j \in 1..Len(dest[k]) :
          j > Len(dec.before[k]) => Len(dest[k][j]) = Len(target[k].elem)
    /\ dec.pc = "failed" => dest = dec.before

\* The number of records the call has appended, over all slots.
RECURSIVE AppendedFrom(_)
AppendedFrom(k) ==
    IF k > Len(target) THEN 0
    ELSE (Len(dest[k]) - Len(dec.before[k])) + AppendedFrom(k + 1)

\* The call is in its loop, at a record.
AtRecord == dec.pc = "decoding"

\* C11: DecodeEventRecords is at a record only while fewer records than the
\* leading count declares have been processed, has processed exactly that many
\* when it returns without error, and has appended no more than it has
\* processed; once the count is reached it returns without error whatever
\* bytes remain (it fails at the count only if the count itself cannot be
\* read); at a record with no byte left it fails with BufferUnderrun.
C11_CountDecidesTermination ==
    /\ [](/\ dec.i <= dec.n \/ dec.pc = "failed"
          /\ AtRecord => dec.i < dec.n
          /\ dec.pc = "done" => dec.i = dec.n /\ dec.n = DecodeUintCompact(raw, 1).v
          /\ dec.pc # "idle" => AppendedFrom(1) <= dec.i
          /\ (dec.pc = "failed" /\ dec.i >= dec.n) => ~DecodeUintCompact(raw, 1).ok)
    /\ [][ (AtRecord /\ dec.cur > Len(raw)) =>
              (dec'.pc = "failed" /\ dec'.err.kind = BufferUnderrun /\ dec'.err.event = dec.i)
         ]_vars

\* A call that has returned without error after two records, one of them
\* appended, with bytes of the stream left unread.
C11_Witness ==
    /\ dec.pc = "done"
    /\ dec.n = 2
    /\ AppendedFrom(1) = 1
    /\ dec.cur <= Len(raw)

\* A call that has failed at its third record for want of bytes.
UnderrunWitness ==
    /\ dec.pc = "failed"
    /\ dec.err.kind = BufferUnderrun
    /\ dec.err.event = 2
    /\ dec.cur > Len(raw)

\* ------------------------------------------------ claims on the resolvers, 2

\* C16: FindCallIndex ends with a CallIndex or with an error value for
\* every call string and every metadata, also for a string without a '.'
\* that is the name of a module with calls: it never panics.
C16_FindCallIndexNeverPanics ==
    ret.op = "FindCallIndex" => ret.out.kind \in {"ok", "err"}

\* FindCallIndex returns (never panics) on every call string that has a '.'.
DottedQueryNeverPanics ==
    (ret.op = "FindCallIndex" /\ Len(Split(ret.arg[1])) >= 2)
        => ret.out.kind \in {"ok", "err"}

\* -------------------------------------- claims on the hashers of an entry

\* The entry is a Plain, a Map, a DoubleMap: that flag and no other is set.
OnlyPlain(s) == s.Type.IsType /\ ~s.Type.IsMap /\ ~s.Type.IsDoubleMap
OnlyMap(s) == ~s.Type.IsType /\ s.Type.IsMap /\ ~s.Type.IsDoubleMap
OnlyDoubleMap(s) == ~s.Type.IsType /\ ~s.Type.IsMap /\ s.Type.IsDoubleMap

\* What the call on the entry returned.
Returned == [h |-> d, err |-> made.err]

\* C17: Hasher() returns what the Map's hasher selects for a Map, what the
\* DoubleMap's first hasher selects for a DoubleMap, and the xxhash 128
\* construction for a Plain; Hasher2() returns what Key2Hasher selects
\* exactly for a DoubleMap, and the error 'only DoubleMaps have a Hasher2'
\* and no hasher for a Plain and for a Map.
C17_EntryHashers ==
    /\ (made.by = "Hasher" /\ OnlyMap(made.arg))
          => Returned = HashFunc(made.arg.Type.AsMap.Hasher)
    /\ (made.by = "Hasher" /\ OnlyDoubleMap(made.arg))
          => Returned = HashFunc(made.arg.Type.AsDoubleMap.Hasher)
    /\ (made.by = "Hasher" /\ OnlyPlain(made.arg))
          => Returned = [h |-> XxhashNew(128, FALSE), err |-> ""]
    /\ (made.by = "Hasher2" /\ OnlyDoubleMap(made.arg))
          => Returned = HashFunc(made.arg.Type.AsDoubleMap.Key2Hasher)
    /\ (made.by = "Hasher2" /\ (OnlyPlain(made.arg) \/ OnlyMap(made.arg)))
          => Returned = [h |-> NoHash, err |-> "only DoubleMaps have a Hasher2"]

\* Hasher() on a DoubleMap whose two hashers select different constructions.
C17_Witness ==
    /\ made.by = "Hasher"
    /\ OnlyDoubleMap(made.arg)
    /\ made.arg.Type.AsDoubleMap.Hasher.IsTwox64Concat
    /\ made.arg.Type.AsDoubleMap.Key2Hasher.IsBlake2_256
    /\ d = XxhashNew(64, TRUE)


\* --------------------------------------------- claims on the variant codecs

\* The last Decode was of the kind, over bytes that start with byte t.
DecodedLeading(kind, t) ==
    /\ val.kind = kind
    /\ into.n > 0
    /\ into.input # <<>>
    /\ into.input[1] = t

\* Decode returned the error having read the discriminant only, and left
\* the value as it was.
RejectedAs(e) ==
    /\ into.err = e
    /\ into.cur = 2
    /\ into.v = into.before

\* Encode was called on a value of the kind with none of the flags set.
EncodedUnset(kind, flags) ==
    /\ val.kind = kind
    /\ wire.written
    /\ ~AnySet(val.v, flags)

\* Encode returned the error and wrote nothing.
RefusedAs(e) ==
    /\ wire.err = e
    /\ wire.bytes = <<>>

\* C13: StorageFunctionTypeV11.Decode fails for every leading byte other than
\* 0, 1, 2 and StorageHasherV11.Decode for every leading byte other than
\* 0..6, reading the discriminant only and decoding no payload; Encode of a
\* value with no variant flag set fails and writes no discriminant byte.
C13_UnknownVariantsFail ==
    /\ \A t \in 0..(U8 - 1) :
          /\ (DecodedLeading(KindType, t) /\ t \notin 0..2)
                => RejectedAs(UnexpectedType)
          /\ (DecodedLeading(KindHasher, t) /\ t \notin 0..6)
                => RejectedAs(UnexpectedHasher)
    /\ EncodedUnset(KindType, TypeFlags) => RefusedAs(NoTypeSet)
    /\ EncodedUnset(KindHasher, HasherFlags) => RefusedAs(NoHasherSet)

\* A hasher byte past the last discriminant is refused by a value that
\* holds an earlier result, with payload bytes behind it left unread.
C13_Witness ==
    /\ DecodedLeading(KindHasher, 7)
    /\ into.n = 2
    /\ into.before = HasherOf(6)
    /\ RejectedAs(UnexpectedHasher)

C13_TypeWitness ==
    /\ DecodedLeading(KindType, 3)
    /\ into.input = <<3, 0>>
    /\ into.before.IsMap
    /\ RejectedAs(UnexpectedType)

C13_EncodeWitness ==
    /\ EncodedUnset(KindType, TypeFlags)
    /\ val.v.AsType # <<>>
    /\ RefusedAs(NoTypeSet)

\* The flags of a value that are set, by discriminant.
Discriminants(s, flags) == { i - 1 : i \in { j \in 1..Len(flags) : s[flags[j]] } }

\* What Encode writes for the value decoded into.
Reencoded ==
    IF val.kind = KindHasher THEN EncodeStorageHasherV11(into.v)
    ELSE EncodeStorageFunctionTypeV11(into.v)

FlagsOf(kind) == IF kind = KindHasher THEN HasherFlags ELSE TypeFlags

\* C15: after any successful Decode into a StorageHasherV11 or a
\* StorageFunctionTypeV11, a value that holds the result of an earlier Decode
\* included, exactly one Is* flag is set, the one of the discriminant just
\* read, and Encode of the value writes that discriminant.
C15_OneFlagAfterDecode ==
    (val.kind \in {KindHasher, KindType} /\ into.n > 0 /\ into.err = "")
        => /\ Discriminants(into.v, FlagsOf(val.kind)) = {into.input[1]}
           /\ Reencoded.err = ""
           /\ Reencoded.bytes[1] = into.input[1]

\* The half that holds: a Decode into a new value leaves exactly the flag of
\* the discriminant read, and the flag just read is set in any case.
FirstDecodeSetsOneFlag ==
    (val.kind \in {KindHasher, KindType} /\ into.n > 0 /\ into.err = "")
        => /\ into.input[1] \in Discriminants(into.v, FlagsOf(val.kind))
           /\ into.n = 1 =>
                 Discriminants(into.v, FlagsOf(val.kind)) = {into.input[1]}


\* ------------------------------------------ claims on the module codec

\* Encode of the module returned no error, and what it wrote was decoded
\* into a new value.
RoundTripped ==
    /\ val.kind = KindModule
    /\ val.has
    /\ wire.written
    /\ wire.err = ""
    /\ into.n = 1

\* What Encode writes for a module: the name, each flag and right behind it
\* its section when the flag is true and nothing when it is false, the
\* constants, the errors.
Layout(md) ==
    EncodeText(md.Name).bytes
    \o EncodeBool(md.HasStorage).bytes
    \o (IF md.HasStorage THEN EncodeStorageMetadataV11(md.Storage).bytes ELSE <<>>)
    \o EncodeBool(md.HasCalls).bytes
    \o (IF md.HasCalls THEN EncodeNamedList(md.Calls).bytes ELSE <<>>)
    \o EncodeBool(md.HasEvents).bytes
    \o (IF md.HasEvents THEN EncodeNamedList(md.Events).bytes ELSE <<>>)
    \o EncodeNamedList(md.Constants).bytes
    \o EncodeNamedList(md.Errors).bytes

FlagsGuardSections ==
    (val.kind = KindModule /\ wire.written /\ wire.err = "")
        => wire.bytes = Layout(val.v)

\* A module decoded into a new value holds no section whose flag was read
\* as false, and the decoder stops where the module ends.
ReadsFlaggedSectionsOnly ==
    (val.kind = KindModule /\ into.n = 1 /\ into.err = "")
        => /\ ~into.v.HasStorage => into.v.Storage = ZeroStorage
           /\ ~into.v.HasCalls => into.v.Calls = <<>>
           /\ ~into.v.HasEvents => into.v.Events = <<>>
           /\ val.has => into.cur = Len(into.input) + 1

OneFlag(s, flags) == Cardinality(Discriminants(s, flags)) = 1

\* A storage type as Decode leaves a new value: one flag, one flag in each
\* hasher of its variant, the other variants' payloads zero.
NormalType(s) ==
    /\ OneFlag(s, TypeFlags)
    /\ ~s.IsType => s.AsType = <<>>
    /\ IF s.IsMap THEN OneFlag(s.AsMap.Hasher, HasherFlags) ELSE s.AsMap = ZeroMap
    /\ IF s.IsDoubleMap
       THEN /\ OneFlag(s.AsDoubleMap.Hasher, HasherFlags)
            /\ OneFlag(s.AsDoubleMap.Key2Hasher, HasherFlags)
       ELSE s.AsDoubleMap = ZeroDoubleMap

\* A module as Decode leaves a new value: a section with a false flag is
\* zero, every storage type is normal.
Normal(md) ==
    /\ ~md.HasStorage => md.Storage = ZeroStorage
    /\ ~md.HasCalls => md.Calls = <<>>
    /\ ~md.HasEvents => md.Events = <<>>
    /\ \A i \in 1..Len(md.Storage.Items) : NormalType(md.Storage.Items[i].Type)

\* C12 as stated: for every ModuleMetadataV11 value x, decoding the bytes
\* produced by Encode(x) yields x; each Has* flag is written immediately
\* before its section and the section only when the flag is true; the decoder
\* reads a section only after reading its flag as true.
C12_EveryModuleRoundTrips ==
    /\ RoundTripped => (into.err = "" /\ into.v = val.v)
    /\ FlagsGuardSections
    /\ ReadsFlaggedSectionsOnly

\* C12 amended: the round trip holds for every module in normal form (no
\* section under a false flag, one flag per storage type and hasher, no
\* payload of another variant).
C12_NormalModuleRoundTrips ==
    /\ (RoundTripped /\ Normal(val.v)) => (into.err = "" /\ into.v = val.v)
    /\ FlagsGuardSections
    /\ ReadsFlaggedSectionsOnly

\* A module with storage entries and events and without calls came back.
C12_Witness ==
    /\ RoundTripped
    /\ Normal(val.v)
    /\ val.v.HasStorage
    /\ Len(val.v.Storage.Items) = 2
    /\ ~val.v.HasCalls
    /\ val.v.HasEvents
    /\ val.v.Constants # <<>>
    /\ into.v = val.v
    /\ wire.bytes = Layout(val.v)

\* What is lost otherwise: calls under a false flag are not written.
C12_LostWitness ==
    /\ RoundTripped
    /\ ~val.v.HasCalls
    /\ val.v.Calls # <<>>
    /\ val.v.Storage = ZeroStorage
    /\ into.err = ""
    /\ into.v = [val.v EXCEPT !.Calls = <<>>]


\* --------------------------------------------------- claims on UCompact

\* The class a first byte selects, by its two low bits.
ClassOf(first) == first % 4

\* The bytes of an encoding in the class, with that first byte.
ClassLength(first) ==
    CASE ClassOf(first) = 0 -> 1
      [] ClassOf(first) = 1 -> 2
      [] ClassOf(first) = 2 -> 4
      [] ClassOf(first) = 3 -> 1 + (first \div 4) + 4

\* The shortest class that holds u: 0..63, 64..16383, 16384..2^30-1, above.
ShortestClass(u) ==
    IF u <= 63 THEN 0
    ELSE IF u <= 16383 THEN 1
    ELSE IF u <= 1073741823 THEN 2
    ELSE 3

\* The bytes documented for the class of u (above 2^30-1: the length byte
\* and the four bytes that hold a value below 2^32).
DocumentedLength(u) ==
    CASE ShortestClass(u) = 0 -> 1
      [] ShortestClass(u) = 1 -> 2
      [] ShortestClass(u) = 2 -> 4
      [] ShortestClass(u) = 3 -> 5

EncodedUCompact ==
    /\ val.kind = KindUCompact
    /\ val.has
    /\ wire.written

DecodedUCompact ==
    /\ val.kind = KindUCompact
    /\ into.n > 0
    /\ into.err = ""

\* C14: UCompact encoding always uses the shortest class (1 byte for 0..63,
\* 2 bytes for 64..16383, 4 bytes for 16384..2^30-1, length-prefixed above),
\* so 63, 64, 16383, 16384, 2^30-1 and 2^30 encode with the documented byte
\* count; decoding selects the class from the two low bits of the first byte
\* and reads that class's bytes; Decode(Encode(u)) = u.
C14_ShortestClassRoundTrips ==
    /\ EncodedUCompact =>
          /\ wire.err = ""
          /\ ClassOf(wire.bytes[1]) = ShortestClass(val.v.UCompact)
          /\ Len(wire.bytes) = DocumentedLength(val.v.UCompact)
    /\ DecodedUCompact => into.cur = 1 + ClassLength(into.input[1])
    /\ (EncodedUCompact /\ into.n > 0) => (into.err = "" /\ into.v = val.v)

\* 2^30, the first value of the length-prefixed class, came back from its
\* five bytes.
C14_Witness ==
    /\ EncodedUCompact
    /\ val.v = UCompact(LengthPrefixedMin)
    /\ Len(wire.bytes) = 5
    /\ into.n = 1
    /\ into.v = UCompact(LengthPrefixedMin)

C14_BoundaryWitness ==
    /\ EncodedUCompact
    /\ val.v = UCompact(16383)
    /\ wire.bytes = <<253, 255>>
    /\ into.n = 1
    /\ into.v = UCompact(16383)

\* A value in a longer class than it needs is accepted.
C14_AnyClassWitness ==
    /\ DecodedUCompact
    /\ ~val.has
    /\ into.input = <<7, 0, 64, 0, 0, 0>>
    /\ into.v = UCompact(LengthPrefixedMin)
    /\ into.cur = 7

====
